---- MODULE Spec2Model ----
(***************************************************************************)
(* A model of the job-search dashboard: the normalizer (scraper.py), the   *)
(* classifier (job_tagger.py) and the remote filters (app.py, utils.py).   *)
(* Python strings are TLA+ strings; Len, \o and SubSeq act on them.        *)
(***************************************************************************)
EXTENDS Integers, Sequences, FiniteSets, TLC

VARIABLES
    pc,          \* position of the run: which call has returned
    api_key,     \* os.getenv('RAPIDAPI_KEY') is set
    transport,   \* outcome of requests.get / raise_for_status / response.json
    status,      \* data.get('status') of the provider envelope
    data,        \* data.get('data'): the raw postings of the response
    jobs_list,   \* scrape_indeed's jobs_list, the input of clean_job_data
    jobs_df,     \* the batch a call returned
    jobs_df2,    \* the batch a second call on jobs_df returned
    error,       \* the message of the exception a call raised, "" if none
    http_requests, \* the requests.get calls scrape_indeed has made
    posting,     \* the raw posting handed to format_posting_date
    posting_date, \* what format_posting_date returned for it
    formatted_location, \* what format_location returned for posting
    batch,       \* the batch handed to the classifier or to the filters
    tagged,      \* what tag_jobs_by_theme returned for batch
    remote_only, \* what filter_remote_jobs returned for batch
    onsite_only, \* what the search handler's On-site Only branch kept of batch
    highlighted, \* what highlight_remote_jobs returned for batch
    applied,     \* the filters that have run on batch
    tag_stats,   \* what get_tag_statistics returned for tagged
    selected_tag, \* the label handed to filter_jobs_by_tag
    filtered_df, \* what filter_jobs_by_tag returned for tagged
    gmail_email, \* os.getenv('GMAIL_EMAIL') is set
    gmail_password, \* os.getenv('GMAIL_APP_PASSWORD') is set
    smtp,        \* how the SMTP session of a digest went
    digest_to,   \* user_email of the digest
    digest_result, \* what send_job_digest_email returned, or that it raised
    smtp_connections, \* the smtplib.SMTP(...) calls made
    smtp_handed, \* the send_message calls the server accepted
    airtable,    \* the rows of the remote table
    upload_df,   \* the frame handed to upload_to_airtable
    existing_keys, \* upload_to_airtable's set of the remote keys
    row_i,       \* the row of upload_df the loop is at
    uploaded,    \* upload_to_airtable's counter
    create_log,  \* the airtable.create calls made: the row and how it went
    skipped,     \* the rows reported as duplicates
    reported,    \* the number of the "Upload complete" line, -1 before it
    session_jobs_df, \* st.session_state.jobs_df
    search_timestamp, \* st.session_state.search_timestamp, 0 for None
    messages,    \* the messages of the last run of the search handler
    searches,    \* the submissions of the search form so far
    form,        \* the form as last submitted
    query,       \* full_query of the last search
    raw_description, \* the raw description handed to format_description
    formatted_description, \* what format_description returned for it
    api_jobs,    \* data.get("data", []) of the response script.py fetched
    session_state, \* the quick_ and form_ keys of st.session_state
    last_run,    \* what the user did to start the last run of the page
    runs,        \* the runs of the page so far
    saved_jobs,  \* st.session_state.saved_jobs
    page_log     \* the last action on the page of a search, and what it acted on

scrapeVars ==
    <<api_key, transport, status, data, jobs_list, jobs_df, jobs_df2, error,
      http_requests>>

dateVars == <<posting, posting_date, formatted_location>>

tagViewVars == <<tag_stats, selected_tag, filtered_df>>

batchVars ==
    <<batch, tagged, remote_only, onsite_only, highlighted, applied, tagViewVars>>

emailVars ==
    <<gmail_email, gmail_password, smtp, digest_to, digest_result,
      smtp_connections, smtp_handed>>

uploadVars ==
    <<airtable, upload_df, existing_keys, row_i, uploaded, create_log, skipped,
      reported>>

sessionVars ==
    <<session_jobs_df, search_timestamp, messages, searches, form, query>>

descVars == <<raw_description, formatted_description>>

quickVars == <<session_state, last_run, runs>>

resultVars == <<saved_jobs, page_log>>

pageVars == <<descVars, api_jobs, quickVars, resultVars>>

serviceVars == <<emailVars, uploadVars, sessionVars, pageVars>>

vars == <<pc, scrapeVars, dateVars, batchVars, serviceVars>>

(***************************************************************************)
(* Bounds of the model.                                                    *)
(***************************************************************************)
MaxPostings == 3   \* raw postings in one provider response

(***************************************************************************)
(* Python string operations.                                               *)
(***************************************************************************)
CharAt(s, i) == SubSeq(s, i, i)

Rest(s) == SubSeq(s, 2, Len(s))

\* The whitespace of str.strip() and of the regex class \s (a sample of it).
Whitespace == {" ", "\t", "\n"}

LowerMap ==
    "A" :> "a" @@ "B" :> "b" @@ "C" :> "c" @@ "D" :> "d" @@ "E" :> "e" @@
    "F" :> "f" @@ "G" :> "g" @@ "H" :> "h" @@ "I" :> "i" @@ "J" :> "j" @@
    "K" :> "k" @@ "L" :> "l" @@ "M" :> "m" @@ "N" :> "n" @@ "O" :> "o" @@
    "P" :> "p" @@ "Q" :> "q" @@ "R" :> "r" @@ "S" :> "s" @@ "T" :> "t" @@
    "U" :> "u" @@ "V" :> "v" @@ "W" :> "w" @@ "X" :> "x" @@ "Y" :> "y" @@
    "Z" :> "z"

UpperMap ==
    "a" :> "A" @@ "b" :> "B" @@ "c" :> "C" @@ "d" :> "D" @@ "e" :> "E" @@
    "f" :> "F" @@ "g" :> "G" @@ "h" :> "H" @@ "i" :> "I" @@ "j" :> "J" @@
    "k" :> "K" @@ "l" :> "L" @@ "m" :> "M" @@ "n" :> "N" @@ "o" :> "O" @@
    "p" :> "P" @@ "q" :> "Q" @@ "r" :> "R" @@ "s" :> "S" @@ "t" :> "T" @@
    "u" :> "U" @@ "v" :> "V" @@ "w" :> "W" @@ "x" :> "X" @@ "y" :> "Y" @@
    "z" :> "Z"

IsLetter(c) == c \in DOMAIN LowerMap \/ c \in DOMAIN UpperMap

LowerChar(c) == IF c \in DOMAIN LowerMap THEN LowerMap[c] ELSE c

UpperChar(c) == IF c \in DOMAIN UpperMap THEN UpperMap[c] ELSE c

\* str.lower()
RECURSIVE Lower(_)
Lower(s) == IF s = "" THEN "" ELSE LowerChar(CharAt(s, 1)) \o Lower(Rest(s))

\* str.title(): the first letter of every run of letters upper, the rest lower
RECURSIVE TitleFrom(_, _)
TitleFrom(s, inWord) ==
    IF s = "" THEN ""
    ELSE LET c == CharAt(s, 1)
         IN  (IF inWord THEN LowerChar(c) ELSE UpperChar(c))
                 \o TitleFrom(Rest(s), IsLetter(c))

Title(s) == TitleFrom(s, FALSE)

RECURSIVE LStrip(_)
LStrip(s) ==
    IF s # "" /\ CharAt(s, 1) \in Whitespace THEN LStrip(Rest(s)) ELSE s

RECURSIVE RStrip(_)
RStrip(s) ==
    IF s # "" /\ CharAt(s, Len(s)) \in Whitespace
    THEN RStrip(SubSeq(s, 1, Len(s) - 1))
    ELSE s

\* a strip that removes blanks only, as str.strip(' ') would
StripBlanksOnly(s) ==
    LET RECURSIVE L(_)
        L(x) == IF x # "" /\ CharAt(x, 1) = " " THEN L(Rest(x)) ELSE x
        RECURSIVE R(_)
        R(x) == IF x # "" /\ CharAt(x, Len(x)) = " "
                THEN R(SubSeq(x, 1, Len(x) - 1)) ELSE x
    IN  R(L(s))

\* str.strip()
Strip(s) == RStrip(LStrip(s))

\* re.sub(r'\s+', ' ', s): every run of whitespace becomes one blank; inRun
\* says that s follows whitespace.  The text is taken a run at a time.
RECURSIVE CollapseFrom(_, _)
CollapseFrom(s, inRun) ==
    LET white == {k \in 1..Len(s) : CharAt(s, k) \in Whitespace}
        other == (1..Len(s)) \ white
        first(S) == CHOOSE k \in S : \A j \in S : k <= j
    IN  IF inRun
        THEN IF other = {} THEN ""
             ELSE CollapseFrom(SubSeq(s, first(other), Len(s)), FALSE)
        ELSE IF white = {} THEN s
             ELSE SubSeq(s, 1, first(white) - 1) \o " "
                      \o CollapseFrom(SubSeq(s, first(white) + 1, Len(s)), TRUE)

CollapseWs(s) == CollapseFrom(s, FALSE)

\* the position of the first c in s at or after i, 0 if there is none
IndexFrom(s, c, i) ==
    LET at == {k \in i..Len(s) : CharAt(s, k) = c}
    IN  IF at = {} THEN 0 ELSE CHOOSE k \in at : \A j \in at : k <= j

\* re.sub(r'<[^>]+>', '', s): a "<", one or more characters that are not
\* ">", and the ">" that follows them are removed
RECURSIVE StripTags(_)
StripTags(s) ==
    LET i == IndexFrom(s, "<", 1)
        j == IndexFrom(s, ">", i + 1)
    IN  IF i = 0 THEN s
        ELSE SubSeq(s, 1, i - 1)
                 \o (IF j > i + 1 THEN StripTags(SubSeq(s, j + 1, Len(s)))
                     ELSE "<" \o StripTags(SubSeq(s, i + 1, Len(s))))

\* k in t
Contains(t, k) ==
    \E i \in 1..(Len(t) - Len(k) + 1) : SubSeq(t, i, i + Len(k) - 1) = k

\* ', '.join(parts)
RECURSIVE Join(_, _)
Join(sep, parts) ==
    IF parts = <<>> THEN ""
    ELSE IF Len(parts) = 1 THEN parts[1]
    ELSE parts[1] \o sep \o Join(sep, Tail(parts))

(***************************************************************************)
(* JSON values of a raw posting.  t is the JSON type ("absent" when the    *)
(* key is missing, "big" for a number beyond the range of datetime),       *)
(* s the text of a string, n the value of a number (1/0 for true/false).   *)
(***************************************************************************)
J(t, s, n) == [t |-> t, s |-> s, n |-> n]

Absent == J("absent", "", 0)
Null == J("null", "", 0)
Str(s) == J("str", s, 0)
Num(n) == J("num", "", n)
Big == J("big", "", 1)
Bool(b) == J("bool", "", IF b THEN 1 ELSE 0)
List == J("list", "", 1)

\* bool(v) of a value read with dict.get(key)
Truthy(v) ==
    \/ v.t = "str" /\ v.s # ""
    \/ v.t \in {"num", "bool"} /\ v.n # 0
    \/ v.t \in {"big", "list"}

\* dict.get(key, ''): the default replaces a missing key only
GetOrEmpty(v) == IF v.t = "absent" THEN Str("") ELSE v

RawFields ==
    {"job_title", "employer_name", "job_city", "job_state", "job_country",
     "job_is_remote", "job_description", "job_apply_link",
     "job_employment_type", "job_posted_at_datetime_utc",
     "job_posted_at_timestamp", "job_posted_at"}

\* a raw posting with the given keys, every other key missing
Posting(f) == [k \in RawFields |-> IF k \in DOMAIN f THEN f[k] ELSE Absent]

(***************************************************************************)
(* A call that may raise: ok is FALSE when it raised, v is what it returned *)
(***************************************************************************)
Ok(v) == [ok |-> TRUE, v |-> v]

Raised == [ok |-> FALSE, v |-> ""]

\* the element of the data list that is no JSON object (dict.get is missing)
NotADict == [k \in RawFields |-> J("nodict", "", 0)]

(***************************************************************************)
(* scraper.py: the field formatters                                        *)
(***************************************************************************)
\* the parts format_location collects, as JSON values
LocationParts(job_json) ==
    LET part(k) == IF Truthy(job_json[k]) THEN <<job_json[k]>> ELSE <<>>
    IN  part("job_city") \o part("job_state") \o part("job_country")
            \o (IF Truthy(job_json["job_is_remote"])
                THEN <<Str("Remote")>> ELSE <<>>)

\* format_location that never looks at job_is_remote
format_location_NoRemote(job_json) ==
    LET parts == LocationParts([job_json EXCEPT !["job_is_remote"] = Absent])
    IN  IF \E i \in 1..Len(parts) : parts[i].t # "str"
        THEN Raised
        ELSE IF parts = <<>> THEN Ok("Not specified")
        ELSE Ok(Join(", ", [i \in 1..Len(parts) |-> parts[i].s]))

format_location(job_json) ==
    LET parts == LocationParts(job_json)
    IN  IF \E i \in 1..Len(parts) : parts[i].t # "str"
        THEN Raised     \* str.join: TypeError
        ELSE IF parts = <<>> THEN Ok("Not specified")
        ELSE Ok(Join(", ", [i \in 1..Len(parts) |-> parts[i].s]))

DescLimit == 300

\* a formatter that marks a text of exactly the limit as cut
format_description_MarksLimit(description) ==
    IF ~Truthy(description) THEN Ok("No description available")
    ELSE IF description.t # "str" THEN Raised
    ELSE LET clean_desc == Strip(CollapseWs(StripTags(description.s)))
         IN  IF Len(clean_desc) >= DescLimit
             THEN Ok(SubSeq(clean_desc, 1, DescLimit) \o "...")
             ELSE Ok(clean_desc)

format_description(description) ==
    IF ~Truthy(description) THEN Ok("No description available")
    ELSE IF description.t # "str" THEN Raised     \* re.sub: TypeError
    ELSE LET clean_desc == Strip(CollapseWs(StripTags(description.s)))
         IN  IF Len(clean_desc) > DescLimit
             THEN Ok(SubSeq(clean_desc, 1, DescLimit) \o "...")
             ELSE Ok(clean_desc)

format_job_type(job_json) ==
    LET emp == job_json["job_employment_type"]
        remote == IF Truthy(job_json["job_is_remote"])
                  THEN <<"Remote">> ELSE <<>>
    IN  IF ~Truthy(emp) THEN
            Ok(IF remote = <<>> THEN "Not specified" ELSE Join(", ", remote))
        ELSE IF emp.t # "str" THEN Raised     \* no .title(): AttributeError
        ELSE Ok(Join(", ", <<Title(emp.s)>> \o remote))

(***************************************************************************)
(* datetime                                                                *)
(***************************************************************************)
Digits == <<"0", "1", "2", "3", "4", "5", "6", "7", "8", "9">>

IsDigit(c) == \E d \in 1..10 : Digits[d] = c

DigitVal(c) == (CHOOSE d \in 1..10 : Digits[d] = c) - 1

AllDigits(s) == s # "" /\ \A i \in 1..Len(s) : IsDigit(CharAt(s, i))

RECURSIVE ToInt(_)
ToInt(s) ==
    IF s = "" THEN 0
    ELSE 10 * ToInt(SubSeq(s, 1, Len(s) - 1)) + DigitVal(CharAt(s, Len(s)))

\* a decimal number of w digits, as %Y, %m and %d print it
RECURSIVE Pad(_, _)
Pad(n, w) == IF w = 0 THEN "" ELSE Pad(n \div 10, w - 1) \o Digits[(n % 10) + 1]

IsLeap(y) == (y % 4 = 0 /\ y % 100 # 0) \/ y % 400 = 0

DaysIn(y, m) ==
    IF m = 2 THEN (IF IsLeap(y) THEN 29 ELSE 28)
    ELSE IF m \in {4, 6, 9, 11} THEN 30 ELSE 31

\* s is YYYY-MM-DD and names a day of the calendar
ValidDate(s) ==
    /\ Len(s) = 10
    /\ AllDigits(SubSeq(s, 1, 4)) /\ CharAt(s, 5) = "-"
    /\ AllDigits(SubSeq(s, 6, 7)) /\ CharAt(s, 8) = "-"
    /\ AllDigits(SubSeq(s, 9, 10))
    /\ LET y == ToInt(SubSeq(s, 1, 4))
           m == ToInt(SubSeq(s, 6, 7))
           d == ToInt(SubSeq(s, 9, 10))
       IN  y >= 1 /\ m \in 1..12 /\ d \in 1..DaysIn(y, m)

\* two digits below the limit
TwoDigits(s, limit) == Len(s) = 2 /\ AllDigits(s) /\ ToInt(s) < limit

\* HH[:MM[:SS[.fff[fff]]]]
ValidClock(s) ==
    /\ Len(s) \in {2, 5, 8, 12, 15}
    /\ TwoDigits(SubSeq(s, 1, 2), 24)
    /\ Len(s) >= 5 => CharAt(s, 3) = ":" /\ TwoDigits(SubSeq(s, 4, 5), 60)
    /\ Len(s) >= 8 => CharAt(s, 6) = ":" /\ TwoDigits(SubSeq(s, 7, 8), 60)
    /\ Len(s) >= 12 => CharAt(s, 9) = "." /\ AllDigits(SubSeq(s, 10, Len(s)))

\* [+-]HH:MM
ValidOffset(s) ==
    /\ Len(s) = 6
    /\ CharAt(s, 1) \in {"+", "-"}
    /\ TwoDigits(SubSeq(s, 2, 3), 24)
    /\ CharAt(s, 4) = ":"
    /\ TwoDigits(SubSeq(s, 5, 6), 60)

ValidTime(s) ==
    \/ ValidClock(s)
    \/ /\ Len(s) > 6
       /\ ValidClock(SubSeq(s, 1, Len(s) - 6))
       /\ ValidOffset(SubSeq(s, Len(s) - 5, Len(s)))

\* datetime.fromisoformat(s) returns: YYYY-MM-DD, alone or followed by one
\* separator character and a time (the forms every Python 3.7+ accepts)
IsoParses(s) ==
    /\ Len(s) >= 10
    /\ ValidDate(SubSeq(s, 1, 10))
    /\ Len(s) > 10 => ValidTime(SubSeq(s, 12, Len(s)))

\* str.replace('Z', '+00:00')
RECURSIVE ReplaceZ(_)
ReplaceZ(s) ==
    IF s = "" THEN ""
    ELSE (IF CharAt(s, 1) = "Z" THEN "+00:00" ELSE CharAt(s, 1))
             \o ReplaceZ(Rest(s))

\* datetime.fromtimestamp(n).strftime('%Y-%m-%d'), the local zone being UTC:
\* the civil date of the day n \div 86400 after 1970-01-01
EpochDate(n) ==
    LET z == (n \div 86400) + 719468
        era == z \div 146097
        doe == z - era * 146097
        yoe == (doe - doe \div 1460 + doe \div 36524 - doe \div 146096) \div 365
        doy == doe - (365 * yoe + yoe \div 4 - yoe \div 100)
        mp == (5 * doy + 2) \div 153
        d == doy - (153 * mp + 2) \div 5 + 1
        m == IF mp < 10 THEN mp + 3 ELSE mp - 9
        y == yoe + era * 400 + (IF m <= 2 THEN 1 ELSE 0)
    IN  Pad(y, 4) \o "-" \o Pad(m, 2) \o "-" \o Pad(d, 2)

date_fields ==
    <<"job_posted_at_datetime_utc", "job_posted_at_timestamp", "job_posted_at">>

\* one round of format_posting_date's loop: done is TRUE when it returned
DateOfField(date_value) ==
    IF ~Truthy(date_value) THEN [done |-> FALSE, v |-> ""]
    ELSE IF date_value.t = "str" THEN
        IF IsoParses(ReplaceZ(date_value.s))
        THEN [done |-> TRUE, v |-> SubSeq(ReplaceZ(date_value.s), 1, 10)]
        ELSE [done |-> TRUE, v |-> date_value.s]          \* return date_value
    ELSE IF date_value.t \in {"num", "bool"} THEN
        [done |-> TRUE, v |-> EpochDate(date_value.n)]
    ELSE [done |-> FALSE, v |-> ""]   \* fromtimestamp raised, or another type

RECURSIVE DateFrom(_, _)
DateFrom(job_json, i) ==
    IF i > Len(date_fields) THEN "Not available"
    ELSE LET r == DateOfField(job_json[date_fields[i]])
         IN  IF r.done THEN r.v ELSE DateFrom(job_json, i + 1)

format_posting_date(job_json) == DateFrom(job_json, 1)

(***************************************************************************)
(* scraper.py: a DataFrame is the sequence of its rows, a row a function   *)
(* from the column names to strings                                        *)
(***************************************************************************)
Row(title, company, location, description, link, job_type, date) ==
    "Job Title" :> title @@ "Company" :> company @@ "Location" :> location @@
    "Description" :> description @@ "Apply Link" :> link @@
    "Job Type" :> job_type @@ "Posting Date" :> date

\* the None extract_job_data_from_api returns from its except clause
None == [ok |-> FALSE, v |-> Row("", "", "", "", "", "", "")]

\* The sample postings carry a string as job_apply_link, or none.
extract_job_data_from_api(job_json) ==
    LET title == GetOrEmpty(job_json["job_title"])
        company == GetOrEmpty(job_json["employer_name"])
        location == format_location(job_json)
        description == format_description(GetOrEmpty(job_json["job_description"]))
        job_type == format_job_type(job_json)
    IN  IF \/ title.t # "str" \/ company.t # "str"     \* no .strip()
           \/ ~location.ok \/ ~description.ok \/ ~job_type.ok
        THEN None
        ELSE Ok(Row(Strip(title.s), Strip(company.s), location.v,
                    description.v, GetOrEmpty(job_json["job_apply_link"]).s,
                    job_type.v, format_posting_date(job_json)))

\* df[mask], from row i on: the rows whose mask is TRUE, in order
RECURSIVE SelectFrom(_, _, _)
SelectFrom(df, mask, i) ==
    IF i > Len(df) THEN <<>>
    ELSE (IF mask[i] THEN <<df[i]>> ELSE <<>>) \o SelectFrom(df, mask, i + 1)

BoolIndex(df, mask) == SelectFrom(df, mask, 1)

\* df[df['Job Title'].str.strip() != '']
DropBlankTitles(df) ==
    BoolIndex(df, [i \in 1..Len(df) |-> Strip(df[i]["Job Title"]) # ""])

\* .str.replace(r'\s+', ' ', regex=True).str.strip() on three columns
Standardize(df) ==
    [i \in 1..Len(df) |->
        [df[i] EXCEPT !["Company"] = Strip(CollapseWs(@)),
                      !["Location"] = Strip(CollapseWs(@)),
                      !["Description"] = Strip(CollapseWs(@))]]

\* df.drop_duplicates(subset=['Job Title', 'Company'], keep='first')
drop_duplicates(df) ==
    BoolIndex(df, [i \in 1..Len(df) |->
                      \A j \in 1..(i - 1) :
                          \/ df[j]["Job Title"] # df[i]["Job Title"]
                          \/ df[j]["Company"] # df[i]["Company"]])

\* clean_job_data with the duplicates dropped before the columns are cleaned
clean_job_data_DedupFirst(df) ==
    IF df = <<>> THEN df
    ELSE Standardize(drop_duplicates(DropBlankTitles(df)))

clean_job_data(df) ==
    IF df = <<>> THEN df
    ELSE drop_duplicates(Standardize(DropBlankTitles(df)))

(***************************************************************************)
(* The provider responses of the model                                     *)
(***************************************************************************)
RawPostings ==
    { Posting([job_title |-> Str("ML Intern"), employer_name |-> Str("Acme  Labs"),
               job_city |-> Str("Austin"), job_is_remote |-> Bool(TRUE),
               job_description |-> Str("<p>Build  ML models</p>")]),
      Posting([job_title |-> Str("ML Intern"), employer_name |-> Str("Acme Labs"),
               job_city |-> Str("Boston"),
               job_employment_type |-> Str("INTERN")]),
      Posting([job_title |-> Str(" ML Intern\t"), employer_name |-> Str(" Acme\tLabs "),
               job_city |-> Str("New  York"), job_state |-> Str("NY")]),
      Posting([job_title |-> Str("Data Analyst"), employer_name |-> Str("Initech"),
               job_country |-> Str("US"),
               job_posted_at_datetime_utc |-> Str("2025-01-15T10:30:00.000Z")]),
      Posting([job_title |-> Str(" \t"), employer_name |-> Str("Initech")]),
      Posting([employer_name |-> Str("Initech"), job_city |-> Str("Austin")]),
      Posting([job_title |-> Null, employer_name |-> Str("Initech")]),
      Posting([job_title |-> Str("Data Analyst"), employer_name |-> Str("Hooli"),
               job_city |-> Num(5)]),
      NotADict }

\* extract_job_data_from_api on the sample postings, computed once
Extracted == [p \in RawPostings |-> extract_job_data_from_api(p)]

\* the loop of scrape_indeed that stops at the first posting it cannot extract
RECURSIVE ExtractAll_Abort(_)
ExtractAll_Abort(postings) ==
    IF postings = <<>> THEN <<>>
    ELSE LET job_data == Extracted[Head(postings)]
         IN  IF ~job_data.ok THEN <<>>
             ELSE (IF job_data.v["Job Title"] # "" THEN <<job_data.v>> ELSE <<>>)
                      \o ExtractAll_Abort(Tail(postings))

\* the loop of scrape_indeed over data['data']: jobs_list
RECURSIVE ExtractAll(_)
ExtractAll(postings) ==
    IF postings = <<>> THEN <<>>
    ELSE LET job_data == Extracted[Head(postings)]
         IN  (IF job_data.ok /\ job_data.v["Job Title"] # ""
              THEN <<job_data.v>> ELSE <<>>) \o ExtractAll(Tail(postings))

NetworkError == "Network error while accessing JSearch API"

FetchError == "Error fetching jobs from API"

\* scrape_indeed with the request sent before the key is looked at
scrape_indeed_RequestFirst(key, outcome, st, postings) ==
    IF ~key \/ outcome # "ok"
    THEN [error |-> IF key THEN NetworkError ELSE FetchError,
          jobs_list |-> <<>>, jobs_df |-> <<>>, requests |-> 1]
    ELSE LET list == IF st = "OK" THEN ExtractAll(postings) ELSE <<>>
         IN  [error |-> "", jobs_list |-> list, requests |-> 1,
              jobs_df |-> IF list # <<>> THEN clean_job_data(list) ELSE <<>>]

\* scrape_indeed that reads data['data'] whatever the status is
scrape_indeed_IgnoreStatus(key, outcome, st, postings) ==
    IF ~key
    THEN [error |-> FetchError, jobs_list |-> <<>>, jobs_df |-> <<>>,
          requests |-> 0]
    ELSE IF outcome # "ok"
    THEN [error |-> NetworkError, jobs_list |-> <<>>, jobs_df |-> <<>>,
          requests |-> 1]
    ELSE LET list == ExtractAll(postings)
         IN  [error |-> "", jobs_list |-> list, requests |-> 1,
              jobs_df |-> IF list # <<>> THEN clean_job_data(list) ELSE <<>>]

\* scrape_indeed: what it raises or returns for the environment it meets,
\* and the requests.get calls it made on the way
scrape_indeed(key, outcome, st, postings) ==
    IF ~key
    THEN [error |-> FetchError, jobs_list |-> <<>>, jobs_df |-> <<>>,
          requests |-> 0]
    ELSE IF outcome # "ok"
    THEN [error |-> NetworkError, jobs_list |-> <<>>, jobs_df |-> <<>>,
          requests |-> 1]
    ELSE IF st = "OK" /\ postings # <<>>
    THEN LET list == ExtractAll(postings)
         IN  [error |-> "", jobs_list |-> list, requests |-> 1,
              jobs_df |-> IF list # <<>> THEN clean_job_data(list) ELSE <<>>]
    ELSE [error |-> "", jobs_list |-> <<>>, jobs_df |-> <<>>, requests |-> 1]

RECURSIVE SeqsUpTo(_, _)
SeqsUpTo(S, n) ==
    IF n = 0 THEN {<<>>}
    ELSE LET shorter == SeqsUpTo(S, n - 1)
         IN  shorter \cup {Append(q, x) : q \in shorter, x \in S}

Responses == SeqsUpTo(RawPostings, MaxPostings)

(***************************************************************************)
(* The run of scrape_indeed, and of clean_job_data on what it returned     *)
(***************************************************************************)
\* the variables of a part of the program that does not run
NoScrape ==
    /\ api_key = FALSE /\ transport = "" /\ status = "" /\ data = <<>>
    /\ jobs_list = <<>> /\ jobs_df = <<>> /\ jobs_df2 = <<>> /\ error = ""
    /\ http_requests = 0

NoDate == posting = NotADict /\ posting_date = "" /\ formatted_location = Ok("")

NoEmail ==
    /\ gmail_email = FALSE /\ gmail_password = FALSE /\ smtp = ""
    /\ digest_to = ""
    /\ digest_result = [raised |-> FALSE, success |-> FALSE, message |-> ""]
    /\ smtp_connections = 0 /\ smtp_handed = 0

NoUpload ==
    /\ airtable = <<>> /\ upload_df = <<>> /\ existing_keys = {} /\ row_i = 0
    /\ uploaded = 0 /\ create_log = <<>> /\ skipped = {} /\ reported = -1

\* the session of a page that has run no search: app.py initialises jobs_df
\* to an empty frame and search_timestamp to None
NoSession ==
    /\ session_jobs_df = <<>> /\ search_timestamp = 0 /\ messages = <<>>
    /\ searches = 0 /\ query = ""
    /\ form = [keyword |-> "", selected_types |-> <<>>, location |-> "",
               location_mode |-> "", sort_by |-> "", num_results |-> 0,
               enable_digest |-> FALSE, digest_email |-> ""]

NoDesc == raw_description = Null /\ formatted_description = Ok("")

\* a session that has no quick_ or form_ key
NoQuick ==
    /\ session_state = [k \in {} |-> ""]
    /\ last_run = [button |-> "", submitted |-> FALSE, keyword |-> "",
                   selected_types |-> <<>>]
    /\ runs = 0

\* app.py initialises saved_jobs to the empty list
NoResult ==
    /\ saved_jobs = <<>>
    /\ page_log = [kind |-> "", shown |-> <<>>, acted |-> <<>>, error |-> FALSE]

NoPage == NoDesc /\ api_jobs = <<>> /\ NoQuick /\ NoResult

NoService == NoEmail /\ NoUpload /\ NoSession /\ NoPage

NoTagView == tag_stats = <<>> /\ selected_tag = "" /\ filtered_df = <<>>

NoBatch ==
    /\ batch = <<>> /\ tagged = <<>> /\ remote_only = <<>>
    /\ onsite_only = <<>> /\ highlighted = <<>> /\ applied = {}
    /\ NoTagView

Init == pc = "start" /\ NoScrape /\ NoDate /\ NoBatch /\ NoService

Scrape(key, outcome, st, postings) ==
    /\ pc = "start"
    /\ LET r == scrape_indeed(key, outcome, st, postings)
       IN  /\ api_key' = key /\ transport' = outcome
           /\ status' = st /\ data' = postings
           /\ jobs_list' = r.jobs_list
           /\ jobs_df' = r.jobs_df
           /\ error' = r.error
           /\ http_requests' = http_requests + r.requests
           /\ pc' = IF r.error = "" THEN "returned" ELSE "raised"
    /\ UNCHANGED <<serviceVars, jobs_df2, dateVars, batchVars>>

\* no key: no request is made
ScrapeNoKey == Scrape(FALSE, "", "", <<>>)

\* the request, raise_for_status or response.json() raises
ScrapeTransportError == Scrape(TRUE, "error", "", <<>>)

\* an envelope whose status is not "OK": an error status, or none
ScrapeNotOk ==
    \E st \in {"ERROR", ""}, postings \in SeqsUpTo(RawPostings, 1) :
        Scrape(TRUE, "ok", st, postings)

ScrapeOk == \E postings \in Responses : Scrape(TRUE, "ok", "OK", postings)

Reclean ==
    /\ pc = "returned"
    /\ jobs_df2' = clean_job_data(jobs_df)
    /\ pc' = "recleaned"
    /\ UNCHANGED <<serviceVars, api_key, transport, status, data, jobs_list, jobs_df, error,
                   http_requests, dateVars, batchVars>>

Next == ScrapeNoKey \/ ScrapeTransportError \/ ScrapeNotOk \/ ScrapeOk \/ Reclean

Spec == Init /\ [][Next]_vars

(***************************************************************************)
(* The normalizer's properties                                             *)
(***************************************************************************)
PairOf(r) == <<r["Job Title"], r["Company"]>>

\* a row with the whitespace of its three text columns collapsed and trimmed
Canonical(r) ==
    [r EXCEPT !["Company"] = Strip(CollapseWs(@)),
              !["Location"] = Strip(CollapseWs(@)),
              !["Description"] = Strip(CollapseWs(@))]

NonBlank(s) == \E i \in 1..Len(s) : CharAt(s, i) \notin Whitespace

\* C1: the batch clean_job_data returns to scrape_indeed has no two rows with
\* the same (Job Title, Company) pair, has a row for every pair of its input,
\* and the row kept for a pair is the first input row with that pair (the
\* pair being read after the Company's whitespace is collapsed, as the
\* cleaning stage compares it).
C1_DedupKeepsFirst ==
    pc = "returned" /\ jobs_list # <<>> =>
        /\ \A a, b \in 1..Len(jobs_df) :
               a # b => PairOf(jobs_df[a]) # PairOf(jobs_df[b])
        /\ \A i \in 1..Len(jobs_list) : \E k \in 1..Len(jobs_df) :
               PairOf(jobs_df[k]) = PairOf(Canonical(jobs_list[i]))
        /\ \A k \in 1..Len(jobs_df) : \E i \in 1..Len(jobs_list) :
               /\ Canonical(jobs_list[i]) = jobs_df[k]
               /\ \A j \in 1..(i - 1) :
                      PairOf(Canonical(jobs_list[j])) # PairOf(jobs_df[k])

\* two extracted rows with one pair and different locations, the second dropped
C1_Witness ==
    /\ pc = "returned"
    /\ Len(jobs_df) < Len(jobs_list)
    /\ \E i, j \in 1..Len(jobs_list) :
           /\ i < j
           /\ PairOf(Canonical(jobs_list[i])) = PairOf(Canonical(jobs_list[j]))
           /\ jobs_list[i]["Location"] # jobs_list[j]["Location"]
           /\ \E k \in 1..Len(jobs_df) : jobs_df[k] = Canonical(jobs_list[i])

\* C3: every row of the batch scrape_indeed returns has a title with a
\* character that is not whitespace.
C3_TitleNonEmpty ==
    pc = "returned" =>
        \A k \in 1..Len(jobs_df) : NonBlank(jobs_df[k]["Job Title"])

\* a response with a whitespace-only title, a missing title and a good one
C3_Witness ==
    /\ pc = "returned"
    /\ jobs_df # <<>>
    /\ \E i \in 1..Len(data) :
           /\ data[i]["job_title"].t = "str"
           /\ data[i]["job_title"].s # ""
           /\ ~NonBlank(data[i]["job_title"].s)
    /\ \E i \in 1..Len(data) : data[i]["job_title"].t = "absent"

\* C5: with the key set and the transport working scrape_indeed never raises,
\* whatever the postings are, and every posting of an OK response that
\* extracts with a non-empty title reaches jobs_list and has its
\* (Job Title, Company) pair in the returned batch.
C5_BadPostingSkipped ==
    pc # "start" /\ api_key /\ transport = "ok" =>
        /\ pc # "raised"
        /\ status = "OK" =>
               \A i \in 1..Len(data) :
                   LET job_data == extract_job_data_from_api(data[i])
                   IN  job_data.ok /\ job_data.v["Job Title"] # "" =>
                           /\ \E j \in 1..Len(jobs_list) :
                                  jobs_list[j] = job_data.v
                           /\ \E k \in 1..Len(jobs_df) :
                                  PairOf(jobs_df[k]) = PairOf(Canonical(job_data.v))

\* a posting that cannot be extracted, followed by one that can
C5_Witness ==
    /\ pc = "returned"
    /\ jobs_df # <<>>
    /\ \E i, j \in 1..Len(data) :
           /\ i < j
           /\ ~extract_job_data_from_api(data[i]).ok
           /\ extract_job_data_from_api(data[j]).ok
           /\ extract_job_data_from_api(data[j]).v["Job Title"] # ""

\* C12: a call of scrape_indeed made without the API key in the environment
\* raises its error to the caller and has issued no HTTP request.
C12_NoKeyNoRequest ==
    pc # "start" /\ ~api_key =>
        pc = "raised" /\ error = FetchError /\ http_requests = 0

\* the call without the key has raised
C12_Witness == pc = "raised" /\ ~api_key /\ error # ""

\* C13: with the key set and the transport working, an envelope whose status
\* is not "OK", or whose data is missing or empty, makes scrape_indeed return
\* the empty batch without raising.
C13_NotOkIsEmpty ==
    pc # "start" /\ api_key /\ transport = "ok"
                /\ (status # "OK" \/ data = <<>>) =>
        pc # "raised" /\ jobs_df = <<>> /\ error = ""

\* a non-OK envelope carrying a posting that an OK envelope would have kept
C13_Witness ==
    /\ pc = "returned" /\ transport = "ok"
    /\ status # "OK"
    /\ data # <<>>
    /\ ExtractAll(data) # <<>>
    /\ jobs_df = <<>>

\* C9: clean_job_data applied to the batch it returned returns that batch.
C9_CleanIdempotent == pc = "recleaned" => jobs_df2 = jobs_df

\* the first cleaning changed a Company and dropped a duplicate
C9_Witness ==
    /\ pc = "recleaned"
    /\ Len(jobs_df) >= 2
    /\ Len(jobs_df) < Len(jobs_list)
    /\ \E i \in 1..Len(jobs_list) : Canonical(jobs_list[i]) # jobs_list[i]

(***************************************************************************)
(* format_posting_date on one raw posting                                  *)
(***************************************************************************)
DateValues ==
    { Absent, Null, Str(""), Str("2025-01-15T10:30:00.000Z"),
      Str("2025-01-15"), Str("3 days ago"), Num(1736899200), Num(0), Big, List }

DatePostings ==
    { Posting([job_posted_at_datetime_utc |-> a,
               job_posted_at_timestamp |-> b,
               job_posted_at |-> c]) : a, b, c \in DateValues }

DateInit ==
    /\ pc = "date_start"
    /\ posting \in DatePostings
    /\ posting_date = "" /\ formatted_location = Ok("")
    /\ NoScrape /\ NoBatch /\ NoService

FormatPostingDate ==
    /\ pc = "date_start"
    /\ posting_date' = format_posting_date(posting)
    /\ pc' = "date_done"
    /\ UNCHANGED <<serviceVars, scrapeVars, posting, formatted_location, batchVars>>

DateNext == FormatPostingDate

DateSpec == DateInit /\ [][DateNext]_vars

\* s has the form YYYY-MM-DD
IsYMD(s) ==
    /\ Len(s) = 10
    /\ \A i \in {1, 2, 3, 4, 6, 7, 9, 10} : IsDigit(CharAt(s, i))
    /\ CharAt(s, 5) = "-" /\ CharAt(s, 8) = "-"

\* C6: format_posting_date returns a YYYY-MM-DD string or "Not available".
C6_DateOrSentinel ==
    pc = "date_done" => IsYMD(posting_date) \/ posting_date = "Not available"

(***************************************************************************)
(* job_tagger.py: the category table, in the order of the dict literal     *)
(***************************************************************************)
theme_categories == <<
    [ label |-> "Computer Vision",
      keywords |->
        <<"computer vision", "cv", "image processing", "opencv",
          "image recognition", "object detection", "facial recognition",
          "medical imaging", "autonomous", "lidar", "camera", "visual",
          "perception">> ],
    [ label |-> "Natural Language Processing",
      keywords |->
        <<"nlp", "natural language", "language model", "text processing",
          "chatbot", "sentiment analysis", "speech recognition",
          "translation", "linguistics", "transformer", "bert", "gpt", "llm">> ],
    [ label |-> "Generative AI",
      keywords |->
        <<"generative ai", "genai", "gpt", "llm", "large language model",
          "diffusion", "stable diffusion", "dall-e", "midjourney",
          "text generation", "ai art", "prompt engineering", "fine-tuning",
          "rag", "retrieval augmented">> ],
    [ label |-> "Machine Learning",
      keywords |->
        <<"machine learning", "ml", "deep learning", "neural network",
          "tensorflow", "pytorch", "scikit-learn", "keras", "model training",
          "feature engineering", "regression", "classification",
          "clustering", "supervised", "unsupervised">> ],
    [ label |-> "Data Science",
      keywords |->
        <<"data science", "data scientist", "data analysis", "statistics",
          "pandas", "numpy", "jupyter", "visualization", "tableau",
          "power bi", "sql", "database", "etl", "data pipeline", "analytics">> ],
    [ label |-> "Robotics",
      keywords |->
        <<"robotics", "robot", "ros", "autonomous", "drone", "manipulation",
          "control systems", "embedded", "sensors", "actuators",
          "path planning">> ],
    [ label |-> "Healthcare AI",
      keywords |->
        <<"healthcare", "medical", "biotech", "pharmaceutical", "clinical",
          "health tech", "telemedicine", "medical device", "fda", "hipaa",
          "radiology", "pathology", "genomics">> ],
    [ label |-> "FinTech",
      keywords |->
        <<"fintech", "financial", "banking", "trading", "cryptocurrency",
          "blockchain", "payments", "fraud detection", "risk management",
          "algorithmic trading", "quantitative", "portfolio">> ],
    [ label |-> "Cloud & DevOps",
      keywords |->
        <<"cloud", "aws", "azure", "gcp", "kubernetes", "docker", "devops",
          "ci/cd", "infrastructure", "terraform", "microservices",
          "serverless">> ],
    [ label |-> "Research",
      keywords |->
        <<"research", "phd", "academic", "publication", "conference",
          "arxiv", "experimental", "theoretical", "university", "lab",
          "postdoc">> ],
    [ label |-> "Software Engineering",
      keywords |->
        <<"software engineer", "software developer", "backend", "frontend",
          "full stack", "microservices", "api design", "rest", "graphql",
          "design patterns", "oop", "typescript", "react", "java", "c++",
          "go">> ],
    [ label |-> "Data Engineering & ETL",
      keywords |->
        <<"data engineer", "etl", "data pipeline", "airflow", "spark",
          "dask", "bigquery", "databricks", "warehousing", "redshift",
          "snowflake", "kinesis", "kafka", "streaming", "batch processing">> ],
    [ label |-> "MLOps & LLMOps",
      keywords |->
        <<"mlops", "llmops", "model serving", "model deployment",
          "model monitoring", "kubeflow", "sagemaker", "vertex ai", "mlflow",
          "feature store", "inference", "ab testing", "drift detection",
          "vector database">> ],
    [ label |-> "Speech & Audio",
      keywords |->
        <<"speech", "asr", "speech recognition", "tts", "voice assistant",
          "audio processing", "music information retrieval",
          "speaker diarization", "audio classification",
          "sound event detection">> ],
    [ label |-> "Cybersecurity & Privacy",
      keywords |->
        <<"cybersecurity", "security engineer", "infosec",
          "penetration testing", "vulnerability", "threat detection", "siem",
          "incident response", "privacy", "gdpr", "pki", "zero trust", "iam">> ],
    [ label |-> "Augmented / Virtual Reality",
      keywords |->
        <<"ar", "vr", "mixed reality", "xr", "oculus", "hololens",
          "3d graphics", "rendering", "spatial computing">> ],
    [ label |-> "Autonomous Vehicles",
      keywords |->
        <<"autonomous vehicle", "self driving", "ad as", "lidar",
          "sensor fusion", "slam", "path planning", "drive sim",
          "perception stack", "automotive safety">> ],
    [ label |-> "Edge & Embedded AI",
      keywords |->
        <<"edge ai", "embedded ai", "tinyml", "micropython", "tflite",
          "rtos", "arm cortex", "nvidia jetson", "raspberry pi",
          "low-power inference">> ],
    [ label |-> "Quantum Computing",
      keywords |->
        <<"quantum computing", "quantum algorithms", "qiskit", "cirq",
          "quantum error correction", "superconducting qubits",
          "quantum annealing", "quantum machine learning">> ],
    [ label |-> "EdTech & Learning Analytics",
      keywords |->
        <<"edtech", "education technology", "learning analytics",
          "adaptive learning", "lms", "moodle", "canvas", "mooc",
          "student success", "assessment analytics">> ],
    [ label |-> "Climate Tech & Sustainability",
      keywords |->
        <<"climate tech", "sustainability", "carbon accounting",
          "energy modeling", "renewables", "climate risk", "emissions",
          "smart grid", "agritech", "environmental">> ] >>

(***************************************************************************)
(* job_tagger.py: the classifier                                           *)
(***************************************************************************)
MaxTags == 3

InSeq(x, q) == \E i \in 1..Len(q) : q[i] = x

text_to_analyze(job_row) ==
    Lower(Join(" ", <<job_row["Job Title"], job_row["Description"],
                      job_row["Company"]>>))

\* the loop of categorize_job from category i on
RECURSIVE MatchFrom(_, _, _, _)
MatchFrom(text, categories, i, matching_tags) ==
    IF i > Len(categories) THEN matching_tags
    ELSE LET category == categories[i].label
             keywords == categories[i].keywords
             hit == \E k \in 1..Len(keywords) : Contains(text, Lower(keywords[k]))
         IN  MatchFrom(text, categories, i + 1,
                       IF hit /\ ~InSeq(category, matching_tags)
                       THEN Append(matching_tags, category)
                       ELSE matching_tags)

\* matching_tags[:3] joined, or the fallback label
TagString(matching_tags) ==
    IF matching_tags # <<>>
    THEN Join(", ", SubSeq(matching_tags, 1,
                           IF Len(matching_tags) < MaxTags
                           THEN Len(matching_tags) ELSE MaxTags))
    ELSE "General Tech"

\* categorize_job without the [:3]
categorize_job_NoLimit(job_row, categories) ==
    LET matching_tags == MatchFrom(text_to_analyze(job_row), categories, 1, <<>>)
    IN  IF matching_tags # <<>> THEN Join(", ", matching_tags)
        ELSE "General Tech"

\* categorize_job with [-3:] for [:3]
categorize_job_LastThree(job_row, categories) ==
    LET matching_tags == MatchFrom(text_to_analyze(job_row), categories, 1, <<>>)
        n == Len(matching_tags)
    IN  IF matching_tags # <<>>
        THEN Join(", ", SubSeq(matching_tags,
                               IF n > MaxTags THEN n - MaxTags + 1 ELSE 1, n))
        ELSE "General Tech"

categorize_job(job_row, categories) ==
    TagString(MatchFrom(text_to_analyze(job_row), categories, 1, <<>>))

\* Row(title, description, company, location) of a batch to classify
TagRow(title, description, company, location) ==
    Row(title, company, location, description, "", "Not specified",
        "Not available")

TagRows ==
    { TagRow("ML Intern", "Build models", "Initech", "Austin"),
      TagRow("ML Intern", "Build models", "Initech", "Boston, Remote"),
      TagRow("Nurse", "Night shift", "Mercy", "Austin"),
      TagRow("GPT ETL Robot Engineer", "Fine-Tuning of LLM", "Hooli", "Austin"),
      TagRow("Software Engineer", "REST API", "Hooli", "Austin"),
      TagRow("Assistant", "CV required", "Acme Labs", "Boston") }

\* categorize_job on the sample rows, computed once
SampleTags == [r \in TagRows |-> categorize_job(r, theme_categories)]

RowTags(job_row) ==
    IF job_row \in TagRows THEN SampleTags[job_row]
    ELSE categorize_job(job_row, theme_categories)

\* tag_jobs_by_theme with one matching_tags list shared by all its calls of
\* categorize_job
RECURSIVE SharedTagsFrom(_, _, _)
SharedTagsFrom(df, i, matching_tags) ==
    IF i > Len(df) THEN <<>>
    ELSE LET m == MatchFrom(text_to_analyze(df[i]), theme_categories, 1,
                            matching_tags)
         IN  <<df[i] @@ ("Tags" :> TagString(m))>>
                 \o SharedTagsFrom(df, i + 1, m)

tag_jobs_by_theme_SharedTags(df) == SharedTagsFrom(df, 1, <<>>)

tag_jobs_by_theme(df) ==
    IF df = <<>> THEN df
    ELSE [i \in 1..Len(df) |-> df[i] @@ ("Tags" :> RowTags(df[i]))]

\* s.split(sep), sep one character
RECURSIVE Split(_, _)
Split(s, sep) ==
    LET j == IndexFrom(s, sep, 1)
    IN  IF j = 0 THEN <<s>>
        ELSE <<SubSeq(s, 1, j - 1)>> \o Split(SubSeq(s, j + 1, Len(s)), sep)

\* [tag.strip() for tag in tags_str.split(',')]
TagList(tags_str) ==
    LET parts == Split(tags_str, ",")
    IN  [i \in 1..Len(parts) |-> Strip(parts[i])]

\* tag_counts[tag] = tag_counts.get(tag, 0) + 1 for the tags of one row: the
\* dict as the sequence of its items in insertion order
RECURSIVE CountTags(_, _)
CountTags(tag_counts, tags) ==
    IF tags = <<>> THEN tag_counts
    ELSE LET tag == Head(tags)
             counted ==
                 IF \E i \in 1..Len(tag_counts) : tag_counts[i].tag = tag
                 THEN [i \in 1..Len(tag_counts) |->
                          IF tag_counts[i].tag = tag
                          THEN [tag |-> tag, n |-> tag_counts[i].n + 1]
                          ELSE tag_counts[i]]
                 ELSE Append(tag_counts, [tag |-> tag, n |-> 1])
         IN  CountTags(counted, Tail(tags))

\* the loop of get_tag_statistics over jobs_df['Tags']
RECURSIVE CountRows(_, _, _)
CountRows(df, i, tag_counts) ==
    IF i > Len(df) THEN tag_counts
    ELSE CountRows(df, i + 1, CountTags(tag_counts, TagList(df[i]["Tags"])))

\* sorted(items, key=lambda x: x[1], reverse=True): the sort is stable, an
\* item goes behind the items of the same n that came before it
RECURSIVE SortedByCount(_, _)
SortedByCount(items, sorted) ==
    IF items = <<>> THEN sorted
    ELSE LET item == Head(items)
             before == SelectSeq(sorted, LAMBDA x : x.n >= item.n)
             after == SelectSeq(sorted, LAMBDA x : x.n < item.n)
         IN  SortedByCount(Tail(items), before \o <<item>> \o after)

\* get_tag_statistics whose sort turns the order of equal counts around
get_tag_statistics_TiesReversed(df) ==
    LET RECURSIVE sort(_, _)
        sort(items, sorted) ==
            IF items = <<>> THEN sorted
            ELSE LET item == Head(items)
                     before == SelectSeq(sorted, LAMBDA x : x.n > item.n)
                     after == SelectSeq(sorted, LAMBDA x : x.n <= item.n)
                 IN  sort(Tail(items), before \o <<item>> \o after)
    IN  IF df = <<>> \/ "Tags" \notin DOMAIN df[1] THEN <<>>
        ELSE sort(CountRows(df, 1, <<>>), <<>>)

\* get_tag_statistics: the dict it returns, as the sequence of its items
get_tag_statistics(df) ==
    IF df = <<>> \/ "Tags" \notin DOMAIN df[1] THEN <<>>
    ELSE SortedByCount(CountRows(df, 1, <<>>), <<>>)

\* filter_jobs_by_tag that looks at the first label of a tag list only
filter_jobs_by_tag_FirstTag(df, tag) ==
    IF df = <<>> \/ "Tags" \notin DOMAIN df[1] THEN df
    ELSE IF tag = "All" THEN df
    ELSE BoolIndex(df, [i \in 1..Len(df) |->
                           Lower(TagList(df[i]["Tags"])[1]) = Lower(tag)])

\* filter_jobs_by_tag.  str.contains(selected_tag, case=False, na=False)
\* searches the pattern in the Tags text; a label of the table holds no
\* character that is special in a pattern, so the search is for the label's
\* text, letters compared without case.  reset_index(drop=True) numbers the
\* rows it keeps from 0, in the column "index" of a frame that has it; the
\* frame returned for "All" keeps its labels.
filter_jobs_by_tag(df, tag) ==
    IF df = <<>> \/ "Tags" \notin DOMAIN df[1] THEN df
    ELSE IF tag = "All" THEN df
    ELSE LET kept == BoolIndex(df, [i \in 1..Len(df) |->
                                       Contains(Lower(df[i]["Tags"]), Lower(tag))])
         IN  [i \in 1..Len(kept) |->
                  IF "index" \in DOMAIN kept[i]
                  THEN [kept[i] EXCEPT !["index"] = i - 1] ELSE kept[i]]

\* the labels of the category table, and the label of a row that matches none
Labels ==
    {theme_categories[i].label : i \in 1..Len(theme_categories)}
        \cup {"General Tech"}

(***************************************************************************)
(* tag_jobs_by_theme on one batch, and the theme filter of the result page *)
(***************************************************************************)
MaxTagBatch == 3   \* rows in a batch to classify

TagInit ==
    /\ pc = "tag_start"
    /\ batch \in SeqsUpTo(TagRows, MaxTagBatch)
    /\ tagged = <<>> /\ remote_only = <<>> /\ onsite_only = <<>>
    /\ highlighted = <<>> /\ applied = {} /\ NoTagView
    /\ NoScrape /\ NoDate /\ NoService

TagJobs ==
    /\ pc = "tag_start"
    /\ tagged' = tag_jobs_by_theme(batch)
    /\ pc' = "tagged"
    /\ UNCHANGED <<serviceVars, scrapeVars, dateVars, batch, remote_only, onsite_only,
                   highlighted, applied, tagViewVars>>

\* the result page: tag_stats = get_tag_statistics(st.session_state.jobs_df)
TagStatistics ==
    /\ pc = "tagged"
    /\ tag_stats' = get_tag_statistics(tagged)
    /\ pc' = "counted"
    /\ UNCHANGED <<serviceVars, scrapeVars, dateVars, batch, tagged, remote_only, onsite_only,
                   highlighted, applied, selected_tag, filtered_df>>

\* the result page: display_df = filter_jobs_by_tag(jobs_df, selected_tag)
FilterByTag ==
    /\ pc = "counted"
    /\ \E tag \in Labels \cup {"All"} :
           /\ selected_tag' = tag
           /\ filtered_df' = filter_jobs_by_tag(tagged, tag)
    /\ pc' = "filtered"
    /\ UNCHANGED <<serviceVars, scrapeVars, dateVars, batch, tagged, remote_only, onsite_only,
                   highlighted, applied, tag_stats>>

TagNext == TagJobs \/ TagStatistics \/ FilterByTag

TagSpec == TagInit /\ [][TagNext]_vars

\* title, description and company joined and lower-cased
AnalysisText(r) ==
    Lower(r["Job Title"] \o " " \o r["Description"] \o " " \o r["Company"])

\* category c has a keyword that is a substring of text
CategoryMatches(c, text) ==
    \E k \in 1..Len(theme_categories[c].keywords) :
        Contains(text, Lower(theme_categories[c].keywords[k]))

\* the labels of the categories that match, in table order
RECURSIVE MatchingLabelsFrom(_, _)
MatchingLabelsFrom(text, c) ==
    IF c > Len(theme_categories) THEN <<>>
    ELSE (IF CategoryMatches(c, text) THEN <<theme_categories[c].label>>
          ELSE <<>>) \o MatchingLabelsFrom(text, c + 1)

\* the matching labels of the sample rows, computed once
SampleLabels == [r \in TagRows |-> MatchingLabelsFrom(AnalysisText(r), 1)]

\* C2: every row of a tagged batch has 1 to 3 labels, and the single label
\* "General Tech" exactly when no keyword of the table is in its text.
C2_TagBound ==
    pc = "tagged" =>
        /\ Len(tagged) = Len(batch)
        /\ \A k \in 1..Len(tagged) :
               LET labels == TagList(tagged[k]["Tags"])
               IN  /\ Len(labels) >= 1 /\ Len(labels) <= 3
                   /\ labels = <<"General Tech">> <=> SampleLabels[batch[k]] = <<>>

\* a batch with a row no category matches and a row more than 3 match
C2_Witness ==
    /\ pc = "tagged"
    /\ \E k \in 1..Len(tagged) : tagged[k]["Tags"] = "General Tech"
    /\ \E k \in 1..Len(tagged) :
           /\ Len(SampleLabels[batch[k]]) > 3
           /\ Len(TagList(tagged[k]["Tags"])) = 3

\* C4: the labels of a row are the first 3 of its matching categories in the
\* table's order, none of them twice.
C4_TableOrder ==
    pc = "tagged" =>
        \A k \in 1..Len(tagged) :
            LET labels == TagList(tagged[k]["Tags"])
                matching == SampleLabels[batch[k]]
            IN  matching # <<>> =>
                    /\ labels = SubSeq(matching, 1,
                                       IF Len(matching) < 3 THEN Len(matching) ELSE 3)
                    /\ \A a, b \in 1..Len(labels) : a # b => labels[a] # labels[b]

\* a row whose 4th and 5th matching category are cut, and a row whose text
\* matches in upper case only
C4_Witness ==
    /\ pc = "tagged"
    /\ \E k \in 1..Len(tagged) : Len(SampleLabels[batch[k]]) >= 5
    /\ \E k \in 1..Len(tagged) :
           /\ Len(SampleLabels[batch[k]]) = 2
           /\ tagged[k]["Description"] # Lower(tagged[k]["Description"])

SameText(r, q) ==
    /\ r["Job Title"] = q["Job Title"]
    /\ r["Description"] = q["Description"]
    /\ r["Company"] = q["Company"]

\* C10: two rows of a tagged batch with the same title, description and
\* company have the same tags, whatever their other columns, their places in
\* the batch and the rows classified before them.
C10_Deterministic ==
    pc = "tagged" =>
        \A a, b \in 1..Len(tagged) :
            SameText(tagged[a], tagged[b]) => tagged[a]["Tags"] = tagged[b]["Tags"]

\* the same text at both ends of a batch, in different locations, with a row
\* of other tags classified between them
C10_Witness ==
    /\ pc = "tagged"
    /\ \E a, b, c \in 1..Len(tagged) :
           /\ a < c /\ c < b
           /\ SameText(tagged[a], tagged[b])
           /\ tagged[a]["Location"] # tagged[b]["Location"]
           /\ tagged[c]["Tags"] # tagged[a]["Tags"]

\* the labels of all tag lists of a batch, in the order of the batch
RECURSIVE AllTags(_)
AllTags(df) ==
    IF df = <<>> THEN <<>>
    ELSE TagList(Head(df)["Tags"]) \o AllTags(Tail(df))

Occurrences(flat, label) == Cardinality({i \in 1..Len(flat) : flat[i] = label})

FirstOccurrence(flat, label) ==
    CHOOSE i \in 1..Len(flat) :
        flat[i] = label /\ \A j \in 1..(i - 1) : flat[j] # label

\* C18: get_tag_statistics of a tagged batch has one entry for every label
\* that occurs in a tag list of the batch and for no other, the entry holds
\* the number of occurrences of the label in the batch, and the entries are
\* in descending order of count, entries of one count in the order of the
\* first occurrence of their labels.
C18_TagStatistics ==
    pc \in {"counted", "filtered"} =>
        LET flat == AllTags(tagged)
            n == Len(tag_stats)
        IN  /\ \A i \in 1..Len(flat) : \E k \in 1..n : tag_stats[k].tag = flat[i]
            /\ \A k \in 1..n :
                   /\ tag_stats[k].n = Occurrences(flat, tag_stats[k].tag)
                   /\ tag_stats[k].n > 0
            /\ \A k, l \in 1..n : k # l => tag_stats[k].tag # tag_stats[l].tag
            /\ \A k \in 1..(n - 1) :
                   \/ tag_stats[k].n > tag_stats[k + 1].n
                   \/ /\ tag_stats[k].n = tag_stats[k + 1].n
                      /\ FirstOccurrence(flat, tag_stats[k].tag)
                             < FirstOccurrence(flat, tag_stats[k + 1].tag)

\* a label counted twice that occurs after the labels it is put before, and
\* two labels of one count
C18_Witness ==
    /\ pc = "counted"
    /\ \E k, l \in 1..Len(tag_stats) :
           /\ k < l
           /\ tag_stats[k].n > tag_stats[l].n
           /\ FirstOccurrence(AllTags(tagged), tag_stats[k].tag)
                  > FirstOccurrence(AllTags(tagged), tag_stats[l].tag)
    /\ \E k \in 1..(Len(tag_stats) - 1) : tag_stats[k].n = tag_stats[k + 1].n

\* no label's text is found, letters compared without case, inside the text
\* of another label
NoLabelInsideAnother ==
    \A a, b \in Labels : a # b => ~Contains(Lower(a), Lower(b))

\* C19: for a label of the category table or "General Tech",
\* filter_jobs_by_tag of a tagged batch returns the rows whose tag list holds
\* the label, all of them and no other, in the order of the batch; for "All"
\* it returns the batch.  No label's text lies inside another label's.
C19_FilterByTag ==
    pc = "filtered" =>
        /\ NoLabelInsideAnother
        /\ selected_tag = "All" => filtered_df = tagged
        /\ selected_tag \in Labels =>
               filtered_df =
                   BoolIndex(tagged,
                             [i \in 1..Len(tagged) |->
                                 InSeq(selected_tag, TagList(tagged[i]["Tags"]))])

\* a label that is the second of a kept row's tag list and in no tag list of
\* a row that is dropped
C19_Witness ==
    /\ pc = "filtered"
    /\ selected_tag \in Labels
    /\ filtered_df # <<>>
    /\ Len(filtered_df) < Len(tagged)
    /\ \E i \in 1..Len(filtered_df) :
           LET tags == TagList(filtered_df[i]["Tags"])
           IN  Len(tags) >= 2 /\ tags[2] = selected_tag

(***************************************************************************)
(* app.py and utils.py: the remote filters                                 *)
(***************************************************************************)
\* .str.contains('remote|Remote|REMOTE', na=False, case=False)
HasRemote(s) == Contains(Lower(s), "remote")

\* remote_mask of filter_remote_jobs
RemoteMask(df) ==
    [i \in 1..Len(df) |->
        \/ HasRemote(df[i]["Location"])
        \/ HasRemote(df[i]["Job Type"])
        \/ HasRemote(df[i]["Job Title"])]

filter_remote_jobs(df) ==
    IF df = <<>> THEN df ELSE BoolIndex(df, RemoteMask(df))

\* the On-site Only branch with a remote_mask that leaves out Job Type
OnsiteOnly_NoJobType(combined_df) ==
    LET remote_mask ==
            [i \in 1..Len(combined_df) |->
                \/ HasRemote(combined_df[i]["Location"])
                \/ HasRemote(combined_df[i]["Job Title"])]
    IN  BoolIndex(combined_df, [i \in 1..Len(combined_df) |-> ~remote_mask[i]])

\* the On-site Only branch of the search handler: combined_df[~remote_mask]
OnsiteOnly(combined_df) ==
    LET remote_mask ==
            [i \in 1..Len(combined_df) |->
                \/ HasRemote(combined_df[i]["Location"])
                \/ HasRemote(combined_df[i]["Job Type"])
                \/ HasRemote(combined_df[i]["Job Title"])]
    IN  BoolIndex(combined_df, [i \in 1..Len(combined_df) |-> ~remote_mask[i]])

remote_keywords ==
    <<"remote", "Remote", "REMOTE", "work from home", "Work from Home", "WFH",
      "telecommute", "Telecommute", "virtual", "Virtual", "anywhere", "Anywhere">>

\* .str.contains('|'.join(remote_keywords), na=False, case=False)
HasRemoteKeyword(s) ==
    \E k \in 1..Len(remote_keywords) : Contains(Lower(s), Lower(remote_keywords[k]))

\* highlight_remote_jobs that also writes the label into the Location
highlight_remote_jobs_Relabels(df) ==
    IF df = <<>> THEN df
    ELSE [i \in 1..Len(df) |->
             LET label == IF \/ HasRemoteKeyword(df[i]["Location"])
                             \/ HasRemoteKeyword(df[i]["Job Title"])
                             \/ HasRemoteKeyword(df[i]["Description"])
                          THEN "Remote" ELSE "On-site"
             IN  [df[i] EXCEPT !["Location"] = label] @@ ("Remote Job" :> label)]

\* The Remote Job column holds "Remote" or "On-site" (the labels of the map
\* without their pictographs).
highlight_remote_jobs(df) ==
    IF df = <<>> THEN df
    ELSE [i \in 1..Len(df) |->
             df[i] @@ ("Remote Job" :>
                 IF \/ HasRemoteKeyword(df[i]["Location"])
                    \/ HasRemoteKeyword(df[i]["Job Title"])
                    \/ HasRemoteKeyword(df[i]["Description"])
                 THEN "Remote" ELSE "On-site")]

\* Row(title, location, job type, description) of a batch to filter
FilterRow(title, location, job_type, description) ==
    Row(title, "Initech", location, description, "", job_type, "Not available")

FilterRows ==
    { FilterRow("ML Intern", "Austin, TX", "Intern", "Build models"),
      FilterRow("ML Intern", "Austin, Remote", "Intern, Remote", "Build models"),
      FilterRow("REMOTE Data Analyst", "Boston", "Fulltime", "Build models"),
      FilterRow("Virtual Assistant", "Boston", "Fulltime", "Answer calls"),
      FilterRow("Data Analyst", "Boston", "Fulltime", "Remote work possible"),
      FilterRow("Data Analyst", "Not specified", "Remote", "Build models") }

MaxFilterBatch == 2   \* rows in a batch to filter

FilterInit ==
    /\ pc = "filter_start"
    /\ batch \in SeqsUpTo(FilterRows, MaxFilterBatch)
    /\ tagged = <<>> /\ remote_only = <<>> /\ onsite_only = <<>>
    /\ highlighted = <<>> /\ applied = {} /\ NoTagView
    /\ NoScrape /\ NoDate /\ NoService

FilterRemoteOnly ==
    /\ pc = "filter_start" /\ "remote" \notin applied
    /\ remote_only' = filter_remote_jobs(batch)
    /\ applied' = applied \cup {"remote"}
    /\ UNCHANGED <<serviceVars, pc, scrapeVars, dateVars, batch, tagged, onsite_only,
                   highlighted, tagViewVars>>

FilterOnsiteOnly ==
    /\ pc = "filter_start" /\ "onsite" \notin applied
    /\ onsite_only' = OnsiteOnly(batch)
    /\ applied' = applied \cup {"onsite"}
    /\ UNCHANGED <<serviceVars, pc, scrapeVars, dateVars, batch, tagged, remote_only,
                   highlighted, tagViewVars>>

HighlightRemote ==
    /\ pc = "filter_start" /\ "highlight" \notin applied
    /\ highlighted' = highlight_remote_jobs(batch)
    /\ applied' = applied \cup {"highlight"}
    /\ UNCHANGED <<serviceVars, pc, scrapeVars, dateVars, batch, tagged, remote_only,
                   onsite_only, tagViewVars>>

FilterNext == FilterRemoteOnly \/ FilterOnsiteOnly \/ HighlightRemote

FilterSpec == FilterInit /\ [][FilterNext]_vars

\* how many rows of df equal r
Count(df, r) == Cardinality({i \in 1..Len(df) : df[i] = r})

\* df keeps rows of whole, in their order
RECURSIVE IsSubsequence(_, _)
IsSubsequence(df, whole) ==
    IF df = <<>> THEN TRUE
    ELSE IF whole = <<>> THEN FALSE
    ELSE IF Head(df) = Head(whole) THEN IsSubsequence(Tail(df), Tail(whole))
    ELSE IsSubsequence(df, Tail(whole))

\* C7: the remote-only and the on-site-only result of a batch partition it:
\* every row is in exactly one of them, as often as in the batch, and the
\* two hold nothing else.
C7_FiltersPartition ==
    {"remote", "onsite"} \subseteq applied =>
        /\ Len(remote_only) + Len(onsite_only) = Len(batch)
        /\ IsSubsequence(remote_only, batch) /\ IsSubsequence(onsite_only, batch)
        /\ \A i \in 1..Len(batch) :
               /\ Count(batch, batch[i])
                      = Count(remote_only, batch[i]) + Count(onsite_only, batch[i])
               /\ Count(remote_only, batch[i]) = 0 \/ Count(onsite_only, batch[i]) = 0

\* a batch with a row for each side, one of them remote by its Job Type alone
C7_Witness ==
    /\ {"remote", "onsite"} \subseteq applied
    /\ onsite_only # <<>>
    /\ \E k \in 1..Len(remote_only) :
           /\ ~HasRemote(remote_only[k]["Location"])
           /\ ~HasRemote(remote_only[k]["Job Title"])

\* C8: filter_remote_jobs keeps a row exactly when highlight_remote_jobs marks
\* it remote.
C8_SameRule ==
    {"remote", "highlight"} \subseteq applied =>
        \A i \in 1..Len(batch) :
            Count(remote_only, batch[i]) > 0 <=> highlighted[i]["Remote Job"] = "Remote"

(***************************************************************************)
(* The four stages that follow the normalizer, one after the other on one  *)
(* batch: tag_jobs_by_theme, filter_jobs_by_tag, filter_remote_jobs,       *)
(* highlight_remote_jobs                                                   *)
(***************************************************************************)
\* filter_remote_jobs on what the theme filter kept
FilterRemoteJobs ==
    /\ pc = "filtered"
    /\ remote_only' = filter_remote_jobs(filtered_df)
    /\ pc' = "remote_filtered"
    /\ UNCHANGED <<serviceVars, scrapeVars, dateVars, batch, tagged, onsite_only,
                   highlighted, applied, tagViewVars>>

\* highlight_remote_jobs on what filter_remote_jobs kept
HighlightRemoteJobs ==
    /\ pc = "remote_filtered"
    /\ highlighted' = highlight_remote_jobs(remote_only)
    /\ pc' = "highlighted"
    /\ UNCHANGED <<serviceVars, scrapeVars, dateVars, batch, tagged, remote_only,
                   onsite_only, applied, tagViewVars>>

StageSpec ==
    TagInit /\ [][TagNext \/ FilterRemoteJobs \/ HighlightRemoteJobs]_vars

\* out is df with the column col added to every row (or written anew where
\* df has it), and nothing else changed
OnlyAdds(out, df, col) ==
    /\ Len(out) = Len(df)
    /\ \A i \in 1..Len(df) :
           /\ DOMAIN out[i] = DOMAIN df[i] \cup {col}
           /\ \A c \in DOMAIN df[i] \ {col} : out[i][c] = df[i][c]

\* C22: no stage changes the batch it is handed; what tag_jobs_by_theme and
\* highlight_remote_jobs return is their input with the Tags or the Remote
\* Job column added, what filter_jobs_by_tag and filter_remote_jobs return is
\* rows of their input, unchanged and in their order.
C22_StagesKeepRecords ==
    /\ [] /\ pc # "tag_start" => OnlyAdds(tagged, batch, "Tags")
          /\ pc \in {"filtered", "remote_filtered", "highlighted"}
                 => IsSubsequence(filtered_df, tagged)
          /\ pc \in {"remote_filtered", "highlighted"}
                 => IsSubsequence(remote_only, filtered_df)
          /\ pc = "highlighted" => OnlyAdds(highlighted, remote_only, "Remote Job")
    /\ [][ /\ batch' = batch
           /\ pc # "tag_start" => tagged' = tagged
           /\ pc \in {"filtered", "remote_filtered"} => filtered_df' = filtered_df
           /\ pc = "remote_filtered" => remote_only' = remote_only ]_vars

\* all four stages have run, both filters dropped rows, a row is left
C22_Witness ==
    /\ pc = "highlighted" /\ highlighted # <<>>
    /\ Len(filtered_df) < Len(tagged)
    /\ Len(remote_only) < Len(filtered_df)

(***************************************************************************)
(* format_location on one raw posting, and the remote label of its row     *)
(***************************************************************************)
LocationPostings ==
    { Posting([job_title |-> Str("ML Intern"), employer_name |-> Str("Acme"),
               job_city |-> city, job_state |-> state, job_country |-> country,
               job_is_remote |-> remote]) :
          city \in {Absent, Null, Str(""), Str("Austin"), Str("New York"), Num(5)},
          state \in {Absent, Str(""), Str("TX")},
          country \in {Absent, Null, Str("US")},
          remote \in {Absent, Null, Bool(FALSE), Bool(TRUE)} }

LocationInit ==
    /\ pc = "location_start"
    /\ posting \in LocationPostings
    /\ posting_date = "" /\ formatted_location = Ok("")
    /\ NoScrape /\ NoBatch /\ NoService

FormatLocation ==
    /\ pc = "location_start"
    /\ formatted_location' = format_location(posting)
    /\ pc' = "located"
    /\ UNCHANGED <<serviceVars, scrapeVars, posting, posting_date, batchVars>>

\* the row of the posting, as scrape_indeed's loop builds and keeps it
ExtractPosting ==
    /\ pc = "located"
    /\ LET job_data == extract_job_data_from_api(posting)
       IN  batch' = IF job_data.ok /\ job_data.v["Job Title"] # ""
                    THEN <<job_data.v>> ELSE <<>>
    /\ pc' = "extracted"
    /\ UNCHANGED <<serviceVars, scrapeVars, dateVars, tagged, remote_only, onsite_only,
                   highlighted, applied, tagViewVars>>

HighlightPosting ==
    /\ pc = "extracted"
    /\ highlighted' = highlight_remote_jobs(batch)
    /\ applied' = applied \cup {"highlight"}
    /\ pc' = "labelled"
    /\ UNCHANGED <<serviceVars, scrapeVars, dateVars, batch, tagged, remote_only,
                   onsite_only, tagViewVars>>

LocationNext == FormatLocation \/ ExtractPosting \/ HighlightPosting

LocationSpec == LocationInit /\ [][LocationNext]_vars

\* a part that is present: a text that is not empty
PresentText(v) == v.t = "str" /\ v.s # ""

\* the source marks the posting remote
MarkedRemote(p) == p["job_is_remote"] = Bool(TRUE)

\* the texts a location is made of: the present ones of city, state and
\* country in that order, then "Remote" for a posting marked remote
ExpectedParts(p) ==
    LET places == SelectSeq(<<p["job_city"], p["job_state"], p["job_country"]>>,
                            PresentText)
    IN  [i \in 1..Len(places) |-> places[i].s]
            \o (IF MarkedRemote(p) THEN <<"Remote">> ELSE <<>>)

\* the parts of the posting are texts, or missing
TextParts(p) ==
    \A k \in {"job_city", "job_state", "job_country"} :
        p[k].t \in {"absent", "null", "str"}

\* C20: for a posting whose city, state and country are texts or missing,
\* format_location returns the present ones in that order joined by ", ",
\* followed by "Remote" when the posting is marked remote; it returns
\* "Not specified" exactly when none of the four is present; the posting with
\* city Austin alone, marked remote, gets "Austin, Remote"; and the row of a
\* posting marked remote is labelled remote by highlight_remote_jobs.
C20_LocationFormat ==
    pc # "location_start" /\ TextParts(posting) =>
        LET parts == ExpectedParts(posting)
        IN  /\ formatted_location.ok
            /\ parts # <<>> => formatted_location.v = Join(", ", parts)
            /\ (formatted_location.v = "Not specified") <=> (parts = <<>>)
            /\ parts = <<"Austin", "Remote">> => formatted_location.v = "Austin, Remote"
            /\ pc \in {"extracted", "labelled"} =>
                   Len(batch) = 1 /\ batch[1]["Location"] = formatted_location.v
            /\ pc = "labelled" /\ MarkedRemote(posting) =>
                   highlighted[1]["Remote Job"] = "Remote"

\* the posting of the example: city Austin, no state, no country, marked
\* remote, formatted, extracted and labelled
C20_Witness ==
    /\ pc = "labelled"
    /\ posting["job_city"] = Str("Austin")
    /\ ExpectedParts(posting) = <<"Austin", "Remote">>
    /\ formatted_location = Ok("Austin, Remote")
    /\ highlighted[1]["Remote Job"] = "Remote"

(***************************************************************************)
(* format_description on one raw description                                *)
(***************************************************************************)
MaxDescTokens == 3       \* pieces of a raw description of the model

\* the pieces of the model's descriptions: words (w), whitespace (s), markup
\* tags (t); one word is two characters short of the limit
DescTokens ==
    LET RECURSIVE Repeat(_, _)
        Repeat(c, n) == IF n = 0 THEN ""
                        ELSE IF n % 2 = 1 THEN c \o Repeat(c, n - 1)
                        ELSE LET half == Repeat(c, n \div 2) IN half \o half
    IN  { [k |-> "w", s |-> "ML"],
          [k |-> "w", s |-> Repeat("x", DescLimit - 2)],
          [k |-> "s", s |-> " \n\t"],
          [k |-> "t", s |-> "<p>"],
          [k |-> "t", s |-> "</a b>"] }

DescDocs == SeqsUpTo(DescTokens, MaxDescTokens)

\* the text of a description made of these pieces
RawText(doc) == Join("", [i \in 1..Len(doc) |-> doc[i].s])

\* job_json.get('job_description', ''): a text, null, or a number
DescValues == {Str(RawText(doc)) : doc \in DescDocs} \cup {Null, Num(5)}

DescInit == pc = "desc_start" /\ NoScrape /\ NoDate /\ NoBatch /\ NoService

FormatDescription ==
    /\ pc = "desc_start"
    /\ \E d \in DescValues :
           /\ raw_description' = d
           /\ formatted_description' = format_description(d)
    /\ pc' = "described"
    /\ UNCHANGED <<scrapeVars, dateVars, batchVars, emailVars, uploadVars,
                   sessionVars, api_jobs, quickVars, resultVars>>

DescSpec == DescInit /\ [][FormatDescription]_vars

\* what is left of the pieces once the tags are dropped, every stretch of
\* whitespace is one blank, and the blanks at both ends are gone
RECURSIVE Cleaned(_, _, _)
Cleaned(doc, text, gap) ==
    IF doc = <<>> THEN text
    ELSE LET piece == Head(doc)
         IN  IF piece.k = "t" THEN Cleaned(Tail(doc), text, gap)
             ELSE IF piece.k = "s" THEN Cleaned(Tail(doc), text, TRUE)
             ELSE Cleaned(Tail(doc),
                          text \o (IF gap /\ text # "" THEN " " ELSE "") \o piece.s,
                          FALSE)

\* C21: for a raw description that is a non-empty text, format_description
\* returns the text without its tags, with whitespace runs collapsed and the
\* ends trimmed; beyond 300 characters it returns the first 300 characters
\* followed by "...", and otherwise the cleaned text with no marker.
C21_DescriptionFormat ==
    pc = "described" /\ raw_description.t = "str" /\ raw_description.s # "" =>
        \A doc \in DescDocs :
            RawText(doc) = raw_description.s =>
                LET text == Cleaned(doc, "", FALSE)
                IN  formatted_description = Ok(IF Len(text) > 300
                                    THEN SubSeq(text, 1, 300) \o "..."
                                    ELSE text)

\* a description with a tag in it whose cleaned text is cut at 300
C21_Witness ==
    /\ pc = "described" /\ raw_description.t = "str"
    /\ IndexFrom(raw_description.s, "<", 1) > 0
    /\ Len(raw_description.s) > 303
    /\ formatted_description.ok /\ Len(formatted_description.v) = 303
    /\ SubSeq(formatted_description.v, 301, 303) = "..."

(***************************************************************************)
(* email_service.py: the digest                                            *)
(***************************************************************************)
DigestLimit == 10

\* generate_email_html raises (KeyError) on a card whose row lacks a column
\* that it reads with job[...]
BuildRaises(df) ==
    \E i \in 1..Len(df) :
        /\ i <= DigestLimit
        /\ ~({"Job Title", "Company", "Location", "Apply Link"}
                 \subseteq DOMAIN df[i])

\* how an SMTP session can go: the call that raises, if one does
SmtpOutcomes ==
    {"ok", "connect_error", "starttls_error", "auth_error", "login_error",
     "send_error", "quit_error"}

\* the inner try of send_job_digest_email: the exception a call of the
\* session raises ("" if none), the connections opened, the messages the
\* server took
SmtpSession(outcome) ==
    [exc |-> CASE outcome = "ok" -> ""
               [] outcome = "connect_error" -> "OSError"
               [] outcome = "auth_error" -> "SMTPAuthenticationError"
               [] OTHER -> "SMTPException",
     connections |-> 1,
     handed |-> IF outcome \in {"ok", "quit_error"} THEN 1 ELSE 0]

\* what a call returned, or that it raised
Returned(success, message, connections, handed) ==
    [raised |-> FALSE, success |-> success, message |-> message,
     connections |-> connections, handed |-> handed]

\* send_job_digest_email without the handler around its body
send_job_digest_email_NoHandler(user_email, df, email_set, password_set, outcome) ==
    IF ~email_set \/ ~password_set \/ BuildRaises(df)
    THEN [raised |-> TRUE, success |-> FALSE, message |-> "",
          connections |-> 0, handed |-> 0]
    ELSE LET session == SmtpSession(outcome)
         IN  IF session.exc = ""
             THEN Returned(TRUE, "Email sent successfully",
                           session.connections, session.handed)
             ELSE IF session.exc = "SMTPAuthenticationError"
             THEN Returned(FALSE, "SMTP Authentication failed",
                           session.connections, session.handed)
             ELSE IF session.exc = "SMTPException"
             THEN Returned(FALSE, "SMTP error",
                           session.connections, session.handed)
             ELSE [raised |-> TRUE, success |-> FALSE, message |-> "",
                   connections |-> session.connections,
                   handed |-> session.handed]

\* send_job_digest_email: the exception of the body ("" if none) and what
\* the handlers around it make of it
send_job_digest_email(user_email, df, email_set, password_set, outcome) ==
    LET before == IF ~email_set THEN "GMAIL_EMAIL environment variable not found or empty"
                  ELSE IF ~password_set
                  THEN "GMAIL_APP_PASSWORD environment variable not found or empty"
                  ELSE IF BuildRaises(df) THEN "KeyError"
                  ELSE ""
        session == SmtpSession(outcome)
    IN  IF before # ""
        THEN Returned(FALSE, "Failed to send email: " \o before, 0, 0)
        ELSE IF session.exc = ""
        THEN Returned(TRUE, "Email sent successfully",
                      session.connections, session.handed)
        ELSE IF session.exc = "SMTPAuthenticationError"
        THEN Returned(FALSE, "SMTP Authentication failed",
                      session.connections, session.handed)
        ELSE IF session.exc = "SMTPException"
        THEN Returned(FALSE, "SMTP error", session.connections, session.handed)
        ELSE Returned(FALSE, "Failed to send email: " \o session.exc,
                      session.connections, session.handed)

\* the batches handed to the digest: of the rows the search handler stores,
\* and one of a frame that lacks the Apply Link column
DigestBatches ==
    SeqsUpTo({FilterRow("ML Intern", "Austin, Remote", "Intern", "Build models"),
              FilterRow("Data Analyst", "Boston", "Fulltime", "Build models")},
             MaxFilterBatch)
        \cup {<<[c \in {"Job Title", "Company", "Location"} |-> "x"]>>}

DigestInit ==
    /\ pc = "digest_start"
    /\ batch \in DigestBatches
    /\ tagged = <<>> /\ remote_only = <<>> /\ onsite_only = <<>>
    /\ highlighted = <<>> /\ applied = {} /\ NoTagView
    /\ NoScrape /\ NoDate /\ NoService

SendDigest ==
    /\ pc = "digest_start"
    /\ \E email_set, password_set \in BOOLEAN, outcome \in SmtpOutcomes,
          user_email \in {"a@b.co", "c@d.org"} :
           LET r == send_job_digest_email(user_email, batch, email_set,
                                          password_set, outcome)
           IN  /\ gmail_email' = email_set /\ gmail_password' = password_set
               /\ smtp' = outcome /\ digest_to' = user_email
               /\ digest_result' = [raised |-> r.raised, success |-> r.success,
                                     message |-> r.message]
               /\ smtp_connections' = smtp_connections + r.connections
               /\ smtp_handed' = smtp_handed + r.handed
    /\ pc' = "digest_done"
    /\ UNCHANGED <<scrapeVars, dateVars, batchVars, uploadVars, sessionVars, pageVars>>

DigestSpec == DigestInit /\ [][SendDigest]_vars

\* C15: send_job_digest_email never raises; without a credential, with a
\* message that cannot be built, with a failed login and with any other
\* failure of the SMTP session it returns (False, message); it returns
\* (True, message) only when the server has taken the message; and without
\* a credential it opens no SMTP connection.
C15_DigestNeverRaises ==
    pc = "digest_done" =>
        /\ ~digest_result.raised
        /\ digest_result.message # ""
        /\ (~gmail_email \/ ~gmail_password \/ BuildRaises(batch) \/ smtp # "ok")
               => ~digest_result.success
        /\ digest_result.success => smtp_handed = 1
        /\ (~gmail_email \/ ~gmail_password) => smtp_connections = 0

\* a digest without the password, and no connection made
C15_Witness ==
    /\ pc = "digest_done"
    /\ gmail_email /\ ~gmail_password
    /\ ~digest_result.success /\ ~digest_result.raised
    /\ smtp_connections = 0

(***************************************************************************)
(* script.py: the upload to the remote table                               *)
(***************************************************************************)
MaxUploadRows == 3   \* rows of a frame to upload

\* a row of the frame fetch_jobs builds, or of the remote table
UploadRecord(title, company, key) ==
    ("Title" :> title) @@ ("Company" :> company) @@ ("Dedup Key" :> key)

UploadRecords ==
    { UploadRecord("ML Intern", "Acme", "ml intern-acme-austin"),
      UploadRecord("ML Intern", "Acme", " ML Intern-Acme-Austin"),
      UploadRecord("Data Analyst", "Initech", "data analyst-initech-boston"),
      UploadRecord("Nurse", "Mercy", "nurse-mercy-us") }

\* the remote tables an upload meets: empty, or with rows of earlier runs,
\* one of them without a Dedup Key field
RemoteTables ==
    { <<>>,
      <<UploadRecord("ML Intern", "Acme", "ML Intern-Acme-Austin ")>>,
      <<("Title" :> "Old") @@ ("Company" :> "Old"),
        UploadRecord("Nurse", "Mercy", "nurse-mercy-us")>> }

\* the set of remote keys, taken as the table holds them
ExistingKeys_Raw(records) ==
    {records[i]["Dedup Key"] :
         i \in {j \in 1..Len(records) : "Dedup Key" \in DOMAIN records[j]}} \ {""}

\* upload_to_airtable: existing_keys of the records airtable.all() returned
ExistingKeys(records) ==
    {Lower(Strip(records[i]["Dedup Key"])) :
         i \in {j \in 1..Len(records) : "Dedup Key" \in DOMAIN records[j]}} \ {""}

\* str(row.get("Dedup Key", "")).strip().lower()
DedupKey(row) ==
    IF "Dedup Key" \in DOMAIN row THEN Lower(Strip(row["Dedup Key"])) ELSE ""

\* the counter that goes up with every create call, the failed ones too
Uploaded_EveryCall(n, created) == n + 1

\* airtable.create(record); uploaded += 1, in a try whose handler prints
Uploaded(n, created) == IF created THEN n + 1 ELSE n

UploadInit ==
    /\ pc = "upload_start"
    /\ airtable \in RemoteTables
    /\ upload_df \in SeqsUpTo(UploadRecords, MaxUploadRows)
    /\ existing_keys = {} /\ row_i = 0 /\ uploaded = 0
    /\ create_log = <<>> /\ skipped = {} /\ reported = -1
    /\ NoScrape /\ NoDate /\ NoBatch /\ NoEmail /\ NoSession /\ NoPage

\* for record in airtable.all(): ...; uploaded = 0
FetchKeys ==
    /\ pc = "upload_start"
    /\ existing_keys' = ExistingKeys(airtable)
    /\ row_i' = 1
    /\ pc' = "uploading"
    /\ UNCHANGED <<scrapeVars, dateVars, batchVars, emailVars, sessionVars, pageVars,
                   airtable,
                   upload_df, uploaded, create_log, skipped, reported>>

\* airtable.all() raises: upload_to_airtable raises to its caller
FetchKeysFails ==
    /\ pc = "upload_start"
    /\ pc' = "upload_raised"
    /\ UNCHANGED <<scrapeVars, dateVars, batchVars, serviceVars>>

\* a row whose key is in existing_keys: print, continue
SkipDuplicate ==
    /\ pc = "uploading" /\ row_i <= Len(upload_df)
    /\ DedupKey(upload_df[row_i]) \in existing_keys
    /\ skipped' = skipped \cup {row_i}
    /\ row_i' = row_i + 1
    /\ UNCHANGED <<pc, scrapeVars, dateVars, batchVars, emailVars, sessionVars,
                   pageVars, airtable,
                   upload_df, existing_keys, uploaded, create_log, reported>>

\* a row whose key is not in existing_keys: airtable.create(record), which
\* adds the row to the table or raises
CreateRecord ==
    /\ pc = "uploading" /\ row_i <= Len(upload_df)
    /\ DedupKey(upload_df[row_i]) \notin existing_keys
    /\ \E created \in BOOLEAN :
           /\ airtable' = IF created THEN Append(airtable, upload_df[row_i])
                           ELSE airtable
           /\ uploaded' = Uploaded(uploaded, created)
           /\ create_log' = Append(create_log, [row |-> row_i, ok |-> created])
    /\ row_i' = row_i + 1
    /\ UNCHANGED <<pc, scrapeVars, dateVars, batchVars, emailVars, sessionVars,
                   pageVars, upload_df,
                   existing_keys, skipped, reported>>

\* the loop is over: print the number of new jobs
ReportUpload ==
    /\ pc = "uploading" /\ row_i > Len(upload_df)
    /\ reported' = uploaded
    /\ pc' = "upload_done"
    /\ UNCHANGED <<scrapeVars, dateVars, batchVars, emailVars, sessionVars, pageVars,
                   airtable,
                   upload_df, existing_keys, row_i, uploaded, create_log, skipped>>

UploadNext ==
    FetchKeys \/ FetchKeysFails \/ SkipDuplicate \/ CreateRecord \/ ReportUpload

UploadSpec == UploadInit /\ [][UploadNext]_vars

\* the create calls that went through
Successes == {c \in 1..Len(create_log) : create_log[c].ok}

\* the keys, trimmed and in lower case, of the rows the table held when the
\* upload started: the rows before those the upload has added
KeysAtStart ==
    LET before == SubSeq(airtable, 1, Len(airtable) - Cardinality(Successes))
    IN  {Lower(Strip(before[j]["Dedup Key"])) :
             j \in {k \in 1..Len(before) : "Dedup Key" \in DOMAIN before[k]}}

\* C16: at every point of an upload, a create call was made for a row only
\* if its key, trimmed and in lower case, is the key of no row the table held
\* when the upload started; a row whose key is such a key is skipped: no
\* create call is made for it and it is counted neither as uploaded nor as a
\* failure; and the table holds its rows of the start and one row for every
\* create call that went through.
C16_UploadSkipsExisting ==
    pc \in {"uploading", "upload_done"} =>
        /\ \A c \in 1..Len(create_log) :
               Lower(Strip(upload_df[create_log[c].row]["Dedup Key"]))
                   \notin KeysAtStart
        /\ \A i \in 1..(row_i - 1) :
               Lower(Strip(upload_df[i]["Dedup Key"])) \in KeysAtStart =>
                   /\ i \in skipped
                   /\ \A c \in 1..Len(create_log) : create_log[c].row # i
        /\ uploaded + Cardinality(skipped) <= row_i - 1
        /\ Len(create_log) + Cardinality(skipped) = row_i - 1
        /\ \A c \in Successes :
               \E j \in 1..Len(airtable) :
                   airtable[j] = upload_df[create_log[c].row]

\* a finished upload that skipped a row whose key differs from the remote
\* key in case and blanks, and created another
C16_Witness ==
    /\ pc = "upload_done"
    /\ \E i \in skipped :
           /\ upload_df[i]["Dedup Key"] \in KeysAtStart
           /\ \A j \in 1..Len(airtable) :
                  "Dedup Key" \in DOMAIN airtable[j] =>
                      airtable[j]["Dedup Key"] # upload_df[i]["Dedup Key"]
    /\ Successes # {}

\* C17: a finished upload has handled every row of the frame, by a skip or
\* by a create call, whatever create calls failed, and the number it reports
\* is the number of create calls that went through; while it runs, its
\* counter is the number of create calls that went through so far.
C17_UploadContinues ==
    /\ pc = "upload_done" =>
           /\ \A i \in 1..Len(upload_df) :
                  \/ i \in skipped
                  \/ \E c \in 1..Len(create_log) : create_log[c].row = i
           /\ reported = Cardinality(Successes)
    /\ pc = "uploading" => uploaded = Cardinality(Successes)

\* a finished upload whose first create call failed and a later one went
\* through
C17_Witness ==
    /\ pc = "upload_done"
    /\ Len(create_log) >= 2
    /\ ~create_log[1].ok
    /\ \E c \in 2..Len(create_log) : create_log[c].ok
    /\ reported = 1

(***************************************************************************)
(* app.py: the search handler and the session it writes                    *)
(***************************************************************************)
MaxSearches == 2         \* submissions of the search form in one session
MaxSearchPostings == 2   \* raw postings in the provider's response to a search

\* a < b for two Python strings; CodePoints holds the characters of the
\* model's texts in the order of their code points
RECURSIVE StrLess(_, _)
StrLess(a, b) ==
    IF b = "" THEN FALSE
    ELSE IF a = "" THEN TRUE
    ELSE IF CharAt(a, 1) = CharAt(b, 1) THEN StrLess(Rest(a), Rest(b))
    ELSE LET CodePoints ==
                 "\t\n !#$%&'()*+,-./0123456789:;<=>?@ABCDEFGHIJKLMNOPQRSTUVWXYZ[]^_abcdefghijklmnopqrstuvwxyz{|}~"
         IN  IndexFrom(CodePoints, CharAt(a, 1), 1)
                 < IndexFrom(CodePoints, CharAt(b, 1), 1)

\* df.sort_values(col, ascending=...) on a frame of up to 16 rows: rows of
\* equal keys keep their order
RECURSIVE sort_values(_, _, _, _)
sort_values(df, col, ascending, sorted) ==
    IF df = <<>> THEN sorted
    ELSE LET row == Head(df)
             behind(x) == IF ascending THEN StrLess(row[col], x[col])
                          ELSE StrLess(x[col], row[col])
         IN  sort_values(Tail(df), col, ascending,
                         SelectSeq(sorted, LAMBDA x : ~behind(x)) \o <<row>>
                             \o SelectSeq(sorted, behind))

\* validate_email: re.match of the pattern
\* ^[a-zA-Z0-9._%+-]+@[a-zA-Z0-9.-]+\.[a-zA-Z]{2,}$
validate_email(email) ==
    LET text == IF email # "" /\ CharAt(email, Len(email)) = "\n"
                THEN SubSeq(email, 1, Len(email) - 1) ELSE email
        at == IndexFrom(text, "@", 1)
        domain == SubSeq(text, at + 1, Len(text))
        word(c) == IsLetter(c) \/ IsDigit(c)
    IN  /\ at > 1
        /\ \A i \in 1..(at - 1) :
               word(CharAt(text, i)) \/ CharAt(text, i) \in {".", "_", "%", "+", "-"}
        /\ \E j \in 2..(Len(domain) - 2) :
               /\ CharAt(domain, j) = "."
               /\ \A i \in 1..(j - 1) :
                      word(CharAt(domain, i)) \/ CharAt(domain, i) \in {".", "-"}
               /\ \A i \in (j + 1)..Len(domain) : IsLetter(CharAt(domain, i))

term_map ==
    ("Fall 2025 Internship" :> "fall 2025 internship") @@
    ("Spring 2026 Internship" :> "spring 2026 internship") @@
    ("Summer 2026 Internship" :> "summer 2026 internship") @@
    ("Entry-Level / New-Grad Full-Time" :> "entry level new grad")

\* the handler leaving Remote Only to the " remote" of the query
CombinedFrame_QueryOnly(scraped, job_type, location_mode, sort_by, num_results) ==
    LET flagged == [i \in 1..Len(scraped) |->
                       scraped[i] @@ ("QueryFlag" :> job_type)]
        combined_df == flagged \o flagged
        located == IF location_mode = "On-site Only"
                   THEN OnsiteOnly(combined_df)
                   ELSE combined_df
        labelled == [i \in 1..Len(located) |-> located[i] @@ ("index" :> i - 1)]
        sorted == IF sort_by = "Date Posted"
                  THEN sort_values(labelled, "Posting Date", FALSE, <<>>)
                  ELSE IF sort_by = "Company"
                  THEN sort_values(labelled, "Company", TRUE, <<>>)
                  ELSE labelled
        with_tags == tag_jobs_by_theme(sorted)
    IN  SubSeq(with_tags, 1,
               IF num_results < Len(with_tags) THEN num_results ELSE Len(with_tags))

\* what the handler makes of the frame scrape_indeed returned, for the
\* job_type its loop over selected_types ended on: the QueryFlag column, the
\* frame appended to all_jobs twice, pd.concat, the location mode, the sort,
\* the tags, head(num_results).  The column "index" holds the row labels of
\* the frame: 0, 1, ... after pd.concat(ignore_index=True) and after the
\* reset_index of a location filter; sort_values and head keep the labels.
CombinedFrame(scraped, job_type, location_mode, sort_by, num_results) ==
    LET flagged == [i \in 1..Len(scraped) |->
                       scraped[i] @@ ("QueryFlag" :> job_type)]
        combined_df == flagged \o flagged
        located == IF location_mode = "Remote Only"
                   THEN filter_remote_jobs(combined_df)
                   ELSE IF location_mode = "On-site Only"
                   THEN OnsiteOnly(combined_df)
                   ELSE combined_df
        labelled == [i \in 1..Len(located) |-> located[i] @@ ("index" :> i - 1)]
        sorted == IF sort_by = "Date Posted"
                  THEN sort_values(labelled, "Posting Date", FALSE, <<>>)
                  ELSE IF sort_by = "Company"
                  THEN sort_values(labelled, "Company", TRUE, <<>>)
                  ELSE labelled
        with_tags == tag_jobs_by_theme(sorted)
    IN  SubSeq(with_tags, 1,
               IF num_results < Len(with_tags) THEN num_results ELSE Len(with_tags))

\* the forms submitted in the model; digest_email is "" for None
SearchForms ==
    LET SearchForm(keyword, types, mode, sort_by, num_results, digest, email) ==
            [keyword |-> keyword, selected_types |-> types, location |-> "",
             location_mode |-> mode, sort_by |-> sort_by, num_results |-> num_results,
             enable_digest |-> digest, digest_email |-> email]
    IN
        { SearchForm("ml", <<"Fall 2025 Internship">>, "Include Remote", "Relevance",
                     25, FALSE, ""),
          SearchForm(" ml ", <<"Fall 2025 Internship",
                               "Entry-Level / New-Grad Full-Time">>,
                     "Remote Only", "Company", 25, FALSE, ""),
          SearchForm("ml", <<"Summer 2026 Internship">>, "On-site Only",
                     "Date Posted", 10, FALSE, ""),
          SearchForm("ml", <<"Fall 2025 Internship">>, "Include Remote", "Company",
                     25, TRUE, "a@b.co"),
          SearchForm("ml", <<"Summer 2026 Internship">>, "On-site Only",
                     "Date Posted", 10, TRUE, "a@b.co"),
          SearchForm("ml", <<"Fall 2025 Internship">>, "Include Remote", "Relevance",
                     25, TRUE, "not-an-email"),
          SearchForm(" ", <<"Fall 2025 Internship">>, "Include Remote", "Relevance",
                     25, FALSE, ""),
          SearchForm("ml", <<>>, "Include Remote", "Relevance", 25, FALSE, "") }

\* the provider's postings in the model's searches
SearchPostings ==
    { Posting([job_title |-> Str("ML Intern"), employer_name |-> Str("Acme  Labs"),
               job_city |-> Str("Austin"), job_is_remote |-> Bool(TRUE),
               job_description |-> Str("<p>Build  ML models</p>")]),
      Posting([job_title |-> Str("Data Analyst"), employer_name |-> Str("Initech"),
               job_country |-> Str("US"),
               job_posted_at_datetime_utc |-> Str("2025-01-15T10:30:00.000Z")]) }

SearchResponses == SeqsUpTo(SearchPostings, MaxSearchPostings)

\* scrape_indeed on the OK responses of the model, computed once
Scraped ==
    [postings \in SearchResponses |-> scrape_indeed(TRUE, "ok", "OK", postings)]

\* CombinedFrame for the forms and responses of the model, computed once
Combined ==
    [postings \in SearchResponses,
     k \in {<<f.selected_types[Len(f.selected_types)], f.location_mode,
              f.sort_by, f.num_results>> :
                f \in {g \in SearchForms : g.selected_types # <<>>}} |->
        CombinedFrame(Scraped[postings].jobs_df, k[1], k[2], k[3], k[4])]

\* a message of the page: st.error, st.warning, st.success, st.info
Message(kind, text, n) == [kind |-> kind, text |-> text, n |-> n]

\* what a run leaves: the session, the messages, the calls it made
Ran(how, session, shown, full_query, scraped, digest) ==
    [how |-> how, jobs_df |-> session.jobs_df,
     search_timestamp |-> session.search_timestamp, messages |-> shown,
     query |-> full_query, scraped |-> scraped, digest |-> digest]

\* st.warning of a search that found nothing
NoJobsFound ==
    Message("warning", "No jobs found for your search criteria. Try different keywords or location.", 0)

\* the except clause of the handler: st.error and st.info
SearchError(e) ==
    <<Message("error", "Error occurred while searching: " \o e, 0),
      Message("info", "Please try again with different search terms or check your internet connection.", 0)>>

\* the handler's last part, with the batch stored once the digest, if one is
\* wanted, has been sent
StoreAndSend_SendFirst(session, f, env, now, combined_df, full_query, r) ==
    LET stored == [jobs_df |-> combined_df, search_timestamp |-> now]
        after(sent) ==
            IF sent.raised
            THEN Ran("failed", session, SearchError("digest"), full_query,
                     <<r>>, <<sent>>)
            ELSE IF sent.success
            THEN Ran("stored", stored,
                     <<Message("success", "Found jobs! Email digest sent",
                               Len(combined_df))>>,
                     full_query, <<r>>, <<sent>>)
            ELSE Ran("stored", session,
                     <<Message("success", "Found jobs!", Len(combined_df)),
                       Message("warning",
                               "Email sending failed: " \o sent.message, 0)>>,
                     full_query, <<r>>, <<sent>>)
    IN  IF f.enable_digest /\ f.digest_email # "" /\ validate_email(f.digest_email)
        THEN after(send_job_digest_email(f.digest_email, combined_df,
                                         env.email_set, env.password_set,
                                         env.smtp))
        ELSE Ran("stored", stored,
                 IF combined_df # <<>> THEN <<Message("success", "Found jobs!", Len(combined_df))>>
                 ELSE <<NoJobsFound>>,
                 full_query, <<r>>, <<>>)

\* the handler's last part: the batch and the time of the search are stored,
\* then the digest is sent if it is enabled for a valid address, and the
\* messages are written (after: with what send_job_digest_email returned)
StoreAndSend(session, f, env, now, combined_df, full_query, r) ==
    LET stored == [jobs_df |-> combined_df, search_timestamp |-> now]
        after(sent) ==
            IF sent.raised
            THEN Ran("failed", stored, SearchError("digest"), full_query,
                     <<r>>, <<sent>>)
            ELSE IF sent.success
            THEN Ran("stored", stored,
                     <<Message("success", "Found jobs! Email digest sent",
                               Len(combined_df))>>,
                     full_query, <<r>>, <<sent>>)
            ELSE Ran("stored", stored,
                     <<Message("success", "Found jobs!", Len(combined_df)),
                       Message("warning",
                               "Email sending failed: " \o sent.message, 0)>>,
                     full_query, <<r>>, <<sent>>)
    IN  IF f.enable_digest /\ f.digest_email # "" /\ validate_email(f.digest_email)
        THEN after(send_job_digest_email(f.digest_email, combined_df,
                                         env.email_set, env.password_set,
                                         env.smtp))
        ELSE Ran("stored", stored,
                 IF combined_df # <<>> THEN <<Message("success", "Found jobs!", Len(combined_df))>>
                 ELSE <<NoJobsFound>>,
                 full_query, <<r>>, <<>>)

\* the handler of a submitted search form: session is the session it finds,
\* now the time of the run (after: with what scrape_indeed returned or
\* raised)
SearchHandler(session, f, env, now) ==
    IF Strip(f.keyword) = ""
    THEN Ran("rejected", session,
             <<Message("error", "Please enter a job keyword to search.", 0)>>,
             "", <<>>, <<>>)
    ELSE IF f.selected_types = <<>>
    THEN Ran("rejected", session,
             <<Message("error",
                       "Please select at least one job type to search for.", 0)>>,
             "", <<>>, <<>>)
    ELSE LET job_type == f.selected_types[Len(f.selected_types)]
             search_terms ==
                 term_map[job_type]
                     \o (IF f.location_mode = "Remote Only" THEN " remote" ELSE "")
             full_query == Strip(f.keyword) \o " " \o search_terms
             sampled == /\ env.key /\ env.outcome = "ok" /\ env.status = "OK"
                        /\ env.postings \in SearchResponses
             k == <<job_type, f.location_mode, f.sort_by, f.num_results>>
             after(r) ==
                 IF r.error # ""
                 THEN Ran("failed", session, SearchError(r.error), full_query,
                          <<r>>, <<>>)
                 ELSE IF r.jobs_df = <<>>
                 THEN Ran("empty", [session EXCEPT !.jobs_df = <<>>],
                          <<NoJobsFound>>, full_query, <<r>>, <<>>)
                 ELSE StoreAndSend(session, f, env, now,
                                   IF sampled /\ <<env.postings, k>> \in DOMAIN Combined
                                   THEN Combined[env.postings, k]
                                   ELSE CombinedFrame(r.jobs_df, k[1], k[2],
                                                      k[3], k[4]),
                                   full_query, r)
         IN  after(IF sampled THEN Scraped[env.postings]
                   ELSE scrape_indeed(env.key, env.outcome, env.status,
                                      env.postings))

\* the environments a run of the handler can meet
SearchEnvs(f) ==
    LET providers ==
            IF Strip(f.keyword) = "" \/ f.selected_types = <<>>
            THEN {<<TRUE, "ok", "OK", <<>> >>}
            ELSE {<<FALSE, "", "", <<>> >>, <<TRUE, "error", "", <<>> >>}
                     \cup {<<TRUE, "ok", "ERROR", postings>> :
                               postings \in SeqsUpTo(SearchPostings, 1) \ {<<>>}}
                     \cup {<<TRUE, "ok", "OK", postings>> :
                               postings \in SearchResponses}
        mailers ==
            IF f.enable_digest /\ validate_email(f.digest_email)
            THEN {<<TRUE, TRUE, "ok">>, <<TRUE, FALSE, "ok">>,
                  <<TRUE, TRUE, "auth_error">>, <<TRUE, TRUE, "connect_error">>}
            ELSE {<<TRUE, TRUE, "ok">>}
    IN  {[key |-> p[1], outcome |-> p[2], status |-> p[3], postings |-> p[4],
          email_set |-> m[1], password_set |-> m[2], smtp |-> m[3]] :
             p \in providers, m \in mailers}

SearchInit ==
    /\ pc = "search_start"
    /\ NoSession /\ NoScrape /\ NoDate /\ NoBatch /\ NoEmail /\ NoUpload /\ NoPage

\* one run of the handler, for the form f in the environment env
SearchRun(f, env) ==
    /\ \E r \in {SearchHandler([jobs_df |-> session_jobs_df,
                                 search_timestamp |-> search_timestamp],
                                f, env, searches + 1)} :
           LET scraped == r.scraped # <<>>
               sent == r.digest # <<>>
           IN  /\ session_jobs_df' = r.jobs_df
               /\ search_timestamp' = r.search_timestamp
               /\ messages' = r.messages
               /\ query' = r.query
               /\ form' = f
               /\ pc' = "search_" \o r.how
               /\ api_key' = env.key /\ transport' = env.outcome
               /\ status' = env.status /\ data' = env.postings
               /\ jobs_list' = IF scraped THEN r.scraped[1].jobs_list ELSE <<>>
               /\ jobs_df' = IF scraped THEN r.scraped[1].jobs_df ELSE <<>>
               /\ error' = IF scraped THEN r.scraped[1].error ELSE ""
               /\ http_requests' =
                      http_requests + (IF scraped THEN r.scraped[1].requests ELSE 0)
               /\ gmail_email' = env.email_set
               /\ gmail_password' = env.password_set
               /\ smtp' = env.smtp
               /\ digest_to' = IF sent THEN f.digest_email ELSE digest_to
               /\ digest_result' =
                      IF sent THEN [raised |-> r.digest[1].raised,
                                    success |-> r.digest[1].success,
                                    message |-> r.digest[1].message]
                      ELSE digest_result
               /\ smtp_connections' =
                      smtp_connections + (IF sent THEN r.digest[1].connections ELSE 0)
               /\ smtp_handed' =
                      smtp_handed + (IF sent THEN r.digest[1].handed ELSE 0)
    /\ searches' = searches + 1
    /\ UNCHANGED <<jobs_df2, dateVars, batchVars, uploadVars>>

\* the form is submitted
Search ==
    /\ pc \in {"search_start", "search_rejected", "search_failed",
                "search_empty", "search_stored"}
    /\ searches < MaxSearches
    /\ \E f \in SearchForms : \E env \in SearchEnvs(f) : SearchRun(f, env)
    /\ UNCHANGED pageVars

SearchSpec == SearchInit /\ [][Search]_vars

\* C11: after a search whose call of the provider failed in the transport
\* (network error, timeout, status that is not 2xx) the current result of
\* the session is the empty batch, and an error is reported.
C11_FailedSearchEmpty ==
    pc = "search_failed" /\ api_key /\ transport = "error" =>
        /\ session_jobs_df = <<>>
        /\ \E i \in 1..Len(messages) : messages[i].kind = "error"

\* C14: a search that stores a batch, with the digest enabled for a valid
\* address and the sending failing, leaves the stored batch and the stored
\* time that the same run with the digest disabled leaves, and its messages
\* are the count of the stored batch and one warning.
C14_DigestFrame ==
    [][ ( /\ searches' = searches + 1
          /\ form'.enable_digest /\ validate_email(form'.digest_email)
          /\ api_key' /\ transport' = "ok" /\ jobs_df' # <<>>
          /\ (~gmail_email' \/ ~gmail_password' \/ smtp' # "ok") )
        => LET off == SearchHandler([jobs_df |-> session_jobs_df,
                                     search_timestamp |-> search_timestamp],
                                    [form' EXCEPT !.enable_digest = FALSE],
                                    [key |-> api_key', outcome |-> transport',
                                     status |-> status', postings |-> data',
                                     email_set |-> gmail_email',
                                     password_set |-> gmail_password',
                                     smtp |-> smtp'],
                                    searches')
           IN  /\ pc' = "search_stored"
               /\ off.digest = <<>>
               /\ session_jobs_df' = off.jobs_df
               /\ search_timestamp' = off.search_timestamp
               /\ ~digest_result'.success
               /\ Len(messages') = 2
               /\ messages'[1] = Message("success", "Found jobs!", Len(session_jobs_df'))
               /\ messages'[2].kind = "warning" ]_vars

\* a second search with the digest failing at the login, after a first one
\* that stored another batch
C14_Witness ==
    /\ pc = "search_stored" /\ searches = 2
    /\ form.enable_digest /\ validate_email(form.digest_email)
    /\ smtp = "auth_error" /\ ~digest_result.success
    /\ digest_result.message = "SMTP Authentication failed"
    /\ session_jobs_df # <<>>
    /\ search_timestamp = 2
    /\ Len(messages) = 2 /\ messages[2].kind = "warning"

\* C23: the batch a successful search stores holds no two records with the
\* same (Job Title, Company) pair.
C23_StoredUnique ==
    pc = "search_stored" =>
        \A i, j \in 1..Len(session_jobs_df) :
            /\ session_jobs_df[i]["Job Title"] = session_jobs_df[j]["Job Title"]
            /\ session_jobs_df[i]["Company"] = session_jobs_df[j]["Company"]
            => i = j

\* C24: a search that reaches the provider queries it once for every selected
\* job type, and every record it stores carries the QueryFlag of a selected
\* type.
C24_QueryPerType ==
    [][ searches' = searches + 1 /\ pc' \in {"search_stored", "search_empty"}
        => /\ http_requests' = http_requests + Len(form'.selected_types)
           /\ \A i \in 1..Len(session_jobs_df') :
                  \E k \in 1..Len(form'.selected_types) :
                      session_jobs_df'[i]["QueryFlag"] = form'.selected_types[k]
      ]_vars

\* "remote" is in the Location, the Job Type or the Job Title of the record
SaysRemote(r) ==
    \E c \in {"Location", "Job Type", "Job Title"} : Contains(Lower(r[c]), "remote")

\* C27: the batch a successful search stores holds only records that say
\* remote in Remote Only mode and none that does in On-site Only mode; in
\* Include Remote mode it holds every record of the search, twice as the
\* handler collects them, up to the result limit.
C27_LocationMode ==
    pc = "search_stored" =>
        /\ form.location_mode = "Remote Only"
               => \A i \in 1..Len(session_jobs_df) : SaysRemote(session_jobs_df[i])
        /\ form.location_mode = "On-site Only"
               => \A i \in 1..Len(session_jobs_df) : ~SaysRemote(session_jobs_df[i])
        /\ form.location_mode = "Include Remote" /\ form.sort_by = "Relevance"
               => /\ Len(session_jobs_df) = 2 * Len(jobs_df)
                  /\ \A i \in 1..Len(jobs_df) :
                         \A c \in DOMAIN jobs_df[i] :
                             /\ session_jobs_df[i][c] = jobs_df[i][c]
                             /\ session_jobs_df[i + Len(jobs_df)][c] = jobs_df[i][c]

\* a Remote Only search that dropped a record and kept one
C27_Witness ==
    /\ pc = "search_stored" /\ form.location_mode = "Remote Only"
    /\ session_jobs_df # <<>>
    /\ \E i \in 1..Len(jobs_df) : ~SaysRemote(jobs_df[i])

\* C30: send_job_digest_email is called only with the digest enabled, an
\* address that validate_email accepts, and a batch of at least one record
\* (stated for the first search of a session, whose digest_to is the
\* address of its own call).
C30_NoEmptyDigest ==
    searches = 1 /\ digest_to # "" =>
        /\ form.enable_digest /\ validate_email(form.digest_email)
        /\ session_jobs_df # <<>>

(***************************************************************************)
(* script.py: a run of the script, fetch_jobs and then the upload          *)
(***************************************************************************)
MaxApiJobs == 3   \* postings of a response to fetch_jobs
ApiLimit == 10    \* jobs = data.get("data", [])[:10]

\* the postings of the responses: two that differ in case and blanks only,
\* one that has a country and no city, one whose key the remote table holds
ApiJobs ==
    { [job_title |-> "ML Intern", employer_name |-> "Acme",
       job_city |-> "Austin", job_country |-> "US"],
      [job_title |-> " ML intern", employer_name |-> "ACME",
       job_city |-> "austin ", job_country |-> "US"],
      [job_title |-> "Nurse", employer_name |-> "Mercy",
       job_city |-> "", job_country |-> "US"],
      [job_title |-> "Data Analyst", employer_name |-> "Initech",
       job_city |-> "Boston", job_country |-> "US"] }

\* f"{title}-{employer}-{city or country}".lower().strip()
dedup_key(job) ==
    Strip(Lower(job.job_title \o "-" \o job.employer_name \o "-" \o
                (IF job.job_city # "" THEN job.job_city ELSE job.job_country)))

\* fetch_jobs that returns a row for every posting
fetch_jobs_KeepsDuplicates(jobs) ==
    LET first == SubSeq(jobs, 1, IF Len(jobs) < ApiLimit THEN Len(jobs) ELSE ApiLimit)
    IN  [i \in 1..Len(first) |->
             UploadRecord(first[i].job_title, first[i].employer_name,
                          dedup_key(first[i]))]

\* fetch_jobs: a row for each of the first ten postings, then
\* drop_duplicates(subset=["Dedup Key"]), which keeps the first row of a key;
\* the empty frame for no postings
fetch_jobs(jobs) ==
    LET first == SubSeq(jobs, 1, IF Len(jobs) < ApiLimit THEN Len(jobs) ELSE ApiLimit)
        job_list == [i \in 1..Len(first) |->
                         UploadRecord(first[i].job_title, first[i].employer_name,
                                      dedup_key(first[i]))]
    IN  BoolIndex(job_list,
                  [i \in 1..Len(job_list) |->
                       \A j \in 1..(i - 1) :
                           job_list[j]["Dedup Key"] # job_list[i]["Dedup Key"]])

ScriptInit ==
    /\ pc = "script_start"
    /\ airtable \in RemoteTables
    /\ api_jobs \in SeqsUpTo(ApiJobs, MaxApiJobs)
    /\ upload_df = <<>>
    /\ existing_keys = {} /\ row_i = 0 /\ uploaded = 0
    /\ create_log = <<>> /\ skipped = {} /\ reported = -1
    /\ NoDesc /\ NoQuick /\ NoResult
    /\ NoScrape /\ NoDate /\ NoBatch /\ NoEmail /\ NoSession

\* __main__: df = fetch_jobs(); an empty frame ends the run, any other is
\* handed to upload_to_airtable
FetchJobs ==
    /\ pc = "script_start"
    /\ upload_df' = fetch_jobs(api_jobs)
    /\ pc' = IF upload_df' = <<>> THEN "script_done" ELSE "upload_start"
    /\ UNCHANGED <<scrapeVars, dateVars, batchVars, emailVars, sessionVars,
                   pageVars, airtable, existing_keys, row_i, uploaded,
                   create_log, skipped, reported>>

\* requests.get or response.json() raises: the run ends before the upload
FetchJobsFails ==
    /\ pc = "script_start"
    /\ pc' = "script_raised"
    /\ UNCHANGED <<scrapeVars, dateVars, batchVars, serviceVars>>

ScriptNext == FetchJobs \/ FetchJobsFails \/ UploadNext

ScriptSpec == ScriptInit /\ [][ScriptNext]_vars

\* the rows the table held when the run began
TableAtStart == SubSeq(airtable, 1, Len(airtable) - Cardinality(Successes))

\* no two rows of the table hold the same key, as written and as compared
DistinctKeys(records) ==
    \A i, j \in 1..Len(records) :
        /\ i # j
        /\ "Dedup Key" \in DOMAIN records[i] /\ "Dedup Key" \in DOMAIN records[j]
        => DedupKey(records[i]) # DedupKey(records[j])

\* C28: a remote table that holds no two rows with the same dedup key
\* before a run of the script holds none during and after it.
C28_TableKeysStayDistinct ==
    DistinctKeys(TableAtStart) => DistinctKeys(airtable)

\* a finished run whose response held two postings of one key, one of which
\* was created
C28_Witness ==
    /\ pc = "upload_done"
    /\ \E i, j \in 1..Len(api_jobs) :
           /\ i < j /\ dedup_key(api_jobs[i]) = dedup_key(api_jobs[j])
           /\ \E c \in Successes :
                  DedupKey(upload_df[create_log[c].row]) = dedup_key(api_jobs[i])

(***************************************************************************)
(* app.py: the quick search buttons and the pre-fill of the search form    *)
(***************************************************************************)
MaxRuns == 3   \* runs of the page in one session

\* quick search buttons by their widget key: one of each job type, two with
\* quick_remote, two with one keyword; "" is no button
QuickButtons ==
    { [key |-> "ds_intern_fall", keyword |-> "data science",
       type |-> "Fall 2025 Internship", remote |-> FALSE],
      [key |-> "junior_ds", keyword |-> "data scientist",
       type |-> "Entry-Level", remote |-> FALSE],
      [key |-> "da_intern", keyword |-> "data analyst intern",
       type |-> "Summer 2026 Internship", remote |-> FALSE],
      [key |-> "remote_swe", keyword |-> "software engineer",
       type |-> "Spring 2026 Internship", remote |-> TRUE],
      [key |-> "remote_ds", keyword |-> "data science",
       type |-> "Entry-Level", remote |-> TRUE] }

\* st.session_state.pop(key, None)
Pop(ss, key) == [k \in DOMAIN ss \ {key} |-> ss[k]]

\* st.session_state.key = value
Put(ss, key, value) ==
    [k \in DOMAIN ss \cup {key} |-> IF k = key THEN value ELSE ss[k]]

\* the clicked button's block: quick_keyword, quick_type and, for the
\* remote buttons, quick_remote
PressQuick(ss, b) ==
    LET typed == Put(Put(ss, "quick_keyword", b.keyword), "quick_type", b.type)
    IN  IF b.remote THEN Put(typed, "quick_remote", TRUE) ELSE typed

\* if 'quick_x' in st.session_state: form_y = quick_x; pop('quick_x')
TransferQuick(ss) ==
    LET move(t, from, to) ==
            IF from \in DOMAIN t THEN Pop(Put(t, to, t[from]), from) ELSE t
    IN  move(move(move(ss, "quick_keyword", "form_keyword"),
                  "quick_type", "form_job_type"),
             "quick_remote", "form_remote")

\* the submission that clears the pre-fill whatever was submitted
SubmitForm_ClearsAlways(ss, keyword, selected_types) ==
    Pop(Pop(Pop(ss, "form_keyword"), "form_job_type"), "form_remote")

\* if submitted: a blank keyword or no job type is an error message; any
\* other submission pops form_keyword, form_job_type and form_remote
SubmitForm(ss, keyword, selected_types) ==
    IF Strip(keyword) = "" THEN ss
    ELSE IF selected_types = <<>> THEN ss
    ELSE Pop(Pop(Pop(ss, "form_keyword"), "form_job_type"), "form_remote")

QuickInit ==
    /\ pc = "page"
    /\ NoQuick
    /\ NoScrape /\ NoDate /\ NoBatch /\ NoEmail /\ NoUpload /\ NoSession
    /\ NoDesc /\ api_jobs = <<>> /\ NoResult

\* a run started by a quick search button: the button's block, then the
\* transfer, which the script holds twice; the form is not submitted
QuickRun ==
    /\ runs < MaxRuns
    /\ \E b \in QuickButtons :
           /\ session_state' = TransferQuick(TransferQuick(PressQuick(session_state, b)))
           /\ last_run' = [button |-> b.key, submitted |-> FALSE, keyword |-> "",
                           selected_types |-> <<>>]
    /\ runs' = runs + 1
    /\ UNCHANGED <<pc, scrapeVars, dateVars, batchVars, emailVars, uploadVars,
                   sessionVars, descVars, api_jobs, resultVars>>

\* a run started by the form's submit button, with the keyword typed and
\* the job types ticked; the search that follows an accepted submission
\* writes no quick_ or form_ key
SubmitRun ==
    /\ runs < MaxRuns
    /\ \E keyword \in {"", " \t", "data science"},
          selected_types \in
              { <<>>, <<"Fall 2025 Internship">>,
                <<"Spring 2026 Internship", "Entry-Level / New-Grad Full-Time">> } :
           /\ session_state' =
                  SubmitForm(TransferQuick(TransferQuick(session_state)),
                             keyword, selected_types)
           /\ last_run' = [button |-> "", submitted |-> TRUE, keyword |-> keyword,
                           selected_types |-> selected_types]
    /\ runs' = runs + 1
    /\ UNCHANGED <<pc, scrapeVars, dateVars, batchVars, emailVars, uploadVars,
                   sessionVars, descVars, api_jobs, resultVars>>

\* a run started by any other widget
OtherRun ==
    /\ runs < MaxRuns
    /\ session_state' = TransferQuick(TransferQuick(session_state))
    /\ last_run' = [button |-> "", submitted |-> FALSE, keyword |-> "",
                    selected_types |-> <<>>]
    /\ runs' = runs + 1
    /\ UNCHANGED <<pc, scrapeVars, dateVars, batchVars, emailVars, uploadVars,
                   sessionVars, descVars, api_jobs, resultVars>>

QuickNext == QuickRun \/ SubmitRun \/ OtherRun

QuickSpec == QuickInit /\ [][QuickNext]_vars

QuickKeys == {"quick_keyword", "quick_type", "quick_remote"}

FormKeys == {"form_keyword", "form_job_type", "form_remote"}

\* C29: at the end of every run no quick_ key is in the session; a run
\* started by a quick search button leaves the button's keyword, type and
\* remote choice in form_keyword, form_job_type, form_remote; a submission
\* with a keyword that is not blank and a job type removes the three form_
\* keys, and every other run keeps the form_ keys the session had.
C29_QuickConsumed ==
    [][ runs' = runs + 1 =>
          /\ DOMAIN session_state' \cap QuickKeys = {}
          /\ \A b \in QuickButtons :
                 last_run'.button = b.key =>
                     /\ session_state'["form_keyword"] = b.keyword
                     /\ session_state'["form_job_type"] = b.type
                     /\ b.remote => session_state'["form_remote"] = TRUE
          /\ IF /\ last_run'.submitted
                /\ Strip(last_run'.keyword) # ""
                /\ last_run'.selected_types # <<>>
             THEN DOMAIN session_state' \cap FormKeys = {}
             ELSE /\ DOMAIN session_state \cap FormKeys \subseteq DOMAIN session_state'
                  /\ last_run'.button = "" =>
                         \A k \in DOMAIN session_state \cap FormKeys :
                             session_state'[k] = session_state[k]
      ]_vars

\* a rejected submission after a quick search: the pre-fill is still there
C29_Witness ==
    /\ last_run.submitted
    /\ Strip(last_run.keyword) = "" \/ last_run.selected_types = <<>>
    /\ "form_keyword" \in DOMAIN session_state
    /\ "form_remote" \in DOMAIN session_state

(***************************************************************************)
(* app.py: the result page, its card and table views and the saved jobs    *)
(***************************************************************************)
MaxSaved == 3   \* entries of saved_jobs up to which the page saves more

\* Series.to_dict(): the columns of a row, without its label
ToDict(r) == [c \in DOMAIN r \ {"index"} |-> r[c]]

\* any(saved['Job Title'] == job['Job Title'] and
\*     saved['Company'] == job['Company'] for saved in saved_jobs)
already_saved(saved, job) ==
    \E i \in 1..Len(saved) :
        /\ saved[i]["Job Title"] = job["Job Title"]
        /\ saved[i]["Company"] = job["Company"]

\* the loop of Save All Selected that appends every selected job
RECURSIVE SaveAll_Unchecked(_, _)
SaveAll_Unchecked(saved, jobs) ==
    IF jobs = <<>> THEN saved
    ELSE SaveAll_Unchecked(Append(saved, Head(jobs)), Tail(jobs))

\* the loop of Save All Selected: already_saved is evaluated against the
\* list as the loop has left it
RECURSIVE SaveAll(_, _)
SaveAll(saved, jobs) ==
    IF jobs = <<>> THEN saved
    ELSE SaveAll(IF already_saved(saved, Head(jobs)) THEN saved
                 ELSE Append(saved, Head(jobs)),
                 Tail(jobs))

\* display_df of a view, for every choice of the Theme Category box ("All"
\* and the keys of tag_stats): filter_jobs_by_tag(jobs_df, selected_tag),
\* then highlight_remote_jobs on a copy
DisplayFrames(df) ==
    LET tag_counts == get_tag_statistics(df)
    IN  {highlight_remote_jobs(filter_jobs_by_tag(df, tag)) :
             tag \in {"All"} \cup {tag_counts[i].tag : i \in 1..Len(tag_counts)}}

\* edited_df[edited_df['Select']].index.tolist(): the positions of the
\* ticked rows, ascending
Ticked(S) ==
    [k \in 1..Cardinality(S) |->
         CHOOSE x \in S : Cardinality({y \in S : y < x}) = k - 1]

\* the jobs a batch action of the table takes for the ticked positions:
\* display_df.iloc[table_data[i]['Index']], where Index is the label of
\* row i; a label past the end of the frame raises IndexError and ends the
\* loop
Taken(display, selected) ==
    LET inside(k) == display[selected[k] + 1]["index"] < Len(display)
        n == Cardinality({k \in 1..Len(selected) :
                              \A j \in 1..k : inside(j)})
    IN  [k \in 1..n |-> ToDict(display[display[selected[k] + 1]["index"] + 1])]

PageInit == SearchInit

\* a search that stores or keeps a batch: the handler for an accepted form
\* in Include Remote mode, sorted by relevance or by company, without
\* digest, the provider answering with postings that differ (scrape_indeed
\* drops a posting that comes again)
PageSearch ==
    /\ pc \in {"search_start", "search_rejected", "search_failed",
                "search_empty", "search_stored"}
    /\ searches < MaxSearches
    /\ \E f \in {[g EXCEPT !.enable_digest = FALSE, !.digest_email = ""] :
                     g \in {h \in SearchForms :
                                /\ Strip(h.keyword) # "" /\ h.selected_types # <<>>
                                /\ h.location_mode = "Include Remote"}} :
       \E postings \in {p \in SearchResponses :
                             \A i, j \in 1..Len(p) : p[i] = p[j] => i = j} :
           SearchRun(f, [key |-> TRUE, outcome |-> "ok", status |-> "OK",
                         postings |-> postings, email_set |-> TRUE,
                         password_set |-> TRUE, smtp |-> "ok"])
    /\ page_log' = [kind |-> "", shown |-> <<>>, acted |-> <<>>, error |-> FALSE]
    /\ UNCHANGED <<descVars, api_jobs, quickVars, saved_jobs>>

\* Card View: the Save Job button of a card, which is there for a job that
\* is not saved; display_jobs_by_season shows the rows of the four seasons
SaveJob ==
    /\ session_jobs_df # <<>>
    /\ Len(saved_jobs) < MaxSaved
    /\ \E display \in DisplayFrames(session_jobs_df) :
       \E i \in 1..Len(display) :
           /\ display[i]["QueryFlag"] \in DOMAIN term_map
           /\ ~already_saved(saved_jobs, display[i])
           /\ saved_jobs' = Append(saved_jobs, ToDict(display[i]))
           /\ page_log' = [kind |-> "save_job", shown |-> <<ToDict(display[i])>>,
                           acted |-> <<ToDict(display[i])>>, error |-> FALSE]
    /\ UNCHANGED <<pc, scrapeVars, dateVars, batchVars, emailVars, uploadVars,
                   sessionVars, descVars, api_jobs, quickVars>>

\* Table View: Save All Selected for the ticked rows
SaveAllSelected ==
    /\ session_jobs_df # <<>>
    /\ Len(saved_jobs) < MaxSaved
    /\ \E display \in DisplayFrames(session_jobs_df) :
       \E S \in SUBSET (0..(Len(display) - 1)) \ {{}} :
       \E acted \in {Taken(display, Ticked(S))} :
           /\ saved_jobs' = SaveAll(saved_jobs, acted)
           /\ page_log' = [kind |-> "save_all",
                           shown |-> [k \in 1..Cardinality(S) |->
                                          ToDict(display[Ticked(S)[k] + 1])],
                           acted |-> acted,
                           error |-> Len(acted) < Cardinality(S)]
    /\ UNCHANGED <<pc, scrapeVars, dateVars, batchVars, emailVars, uploadVars,
                   sessionVars, descVars, api_jobs, quickVars>>

\* Table View: Export Selected to CSV for the ticked rows
ExportSelected ==
    /\ session_jobs_df # <<>>
    /\ \E display \in DisplayFrames(session_jobs_df) :
       \E S \in SUBSET (0..(Len(display) - 1)) \ {{}} :
       \E acted \in {Taken(display, Ticked(S))} :
           page_log' = [kind |-> "export",
                        shown |-> [k \in 1..Cardinality(S) |->
                                       ToDict(display[Ticked(S)[k] + 1])],
                        acted |-> acted,
                        error |-> Len(acted) < Cardinality(S)]
    /\ UNCHANGED <<pc, scrapeVars, dateVars, batchVars, emailVars, uploadVars,
                   sessionVars, descVars, api_jobs, quickVars, saved_jobs>>

\* the Remove button of entry i of the saved jobs section, which the page
\* shows with a batch: saved_jobs.pop(i)
Remove ==
    /\ session_jobs_df # <<>>
    /\ \E i \in 1..Len(saved_jobs) :
           /\ saved_jobs' = SubSeq(saved_jobs, 1, i - 1) \o
                            SubSeq(saved_jobs, i + 1, Len(saved_jobs))
           /\ page_log' = [kind |-> "remove", shown |-> <<>>, acted |-> <<>>,
                           error |-> FALSE]
    /\ UNCHANGED <<pc, scrapeVars, dateVars, batchVars, emailVars, uploadVars,
                   sessionVars, descVars, api_jobs, quickVars>>

PageNext == PageSearch \/ SaveJob \/ SaveAllSelected \/ ExportSelected \/ Remove

PageSpec == PageInit /\ [][PageNext]_vars

\* C25: the saved-jobs list holds no two entries with the same
\* (Job Title, Company) pair.
C25_SavedUnique ==
    \A i, j \in 1..Len(saved_jobs) :
        /\ saved_jobs[i]["Job Title"] = saved_jobs[j]["Job Title"]
        /\ saved_jobs[i]["Company"] = saved_jobs[j]["Company"]
        => i = j

\* Save All Selected with two ticked rows that show the same job
C25_Witness ==
    /\ page_log.kind = "save_all" /\ Len(page_log.shown) >= 2
    /\ page_log.shown[1]["Job Title"] = page_log.shown[2]["Job Title"]
    /\ page_log.shown[1]["Company"] = page_log.shown[2]["Company"]
    /\ \E i \in 1..Len(saved_jobs) :
           /\ saved_jobs[i]["Job Title"] = page_log.shown[1]["Job Title"]
           /\ saved_jobs[i]["Company"] = page_log.shown[1]["Company"]

\* C26: Save All Selected and Export Selected to CSV take, for every ticked
\* row of the table, the job shown in that row, and raise no IndexError.
C26_TableActsOnShown ==
    page_log.kind \in {"save_all", "export"} =>
        /\ ~page_log.error
        /\ page_log.acted = page_log.shown

====
